---- MODULE Spec2Model ----
(***************************************************************************)
(* Model of the binary/numeric decoders of power_info.py:                  *)
(*   - PowerInfo.decode_pdo / PowerInfo.decode_rdo (USB-PD 32-bit words),   *)
(*   - PowerInfo.decode_manufacture_date and its caller,                    *)
(*   - the seven bit-flag register decoders (_decode_charger_inhibit_reason *)
(*     .. _decode_misc_status),                                             *)
(*   - the inline signed-overflow recovery of the Amperage,                 *)
(*     InstantAmperage and FilteredCurrent registers in                     *)
(*     PowerInfo.get_battery_from_ioreg.                                    *)
(*                                                                         *)
(* Number representations.  TLC integers are 32-bit signed, so             *)
(*   - a 32-bit word is a bit vector  [0..31 -> {0,1}]  (bit 0 = LSB);      *)
(*     Python's  (w >> n) & mask  is ShiftRight followed by AndMask;        *)
(*   - a 64-bit register value, and the signed result of the overflow       *)
(*     recovery, is a big integer in radix 2^16: <<l3, l2, l1, l0>> stands  *)
(*     for l3*2^48 + l2*2^32 + l1*2^16 + l0 with l2, l1, l0 in 0..65535     *)
(*     and l3 any integer (l3 carries the sign);                            *)
(*   - a Python float produced by  n / 1000.0  is kept as the exact         *)
(*     quotient [num |-> n, den |-> 1000];                                  *)
(*   - a Python dict is a function from key strings to values, {} is the    *)
(*     function with empty domain, None is a value no dict equals;          *)
(*   - a character is its code point; a string a decoder returns is the     *)
(*     sequence of the pieces it is put together from (the literal parts    *)
(*     and the formatted values of an f-string, the items and separators    *)
(*     of a join), and Render concatenates the pieces into the string.      *)
(***************************************************************************)
EXTENDS Integers, Sequences, FiniteSets, TLC

VARIABLES
    pc,        \* "ready" before the operation of the specification ran, "done" after
    pdo,       \* argument of decode_pdo (32-bit word)
    pdo_ret,   \* value returned by decode_pdo
    fixed_v,   \* millivolts handed to the Fixed encoder (round trip)
    fixed_i,   \* milliamps handed to the Fixed encoder (round trip)
    rdo,       \* argument of decode_rdo (32-bit word)
    rdo_ret,   \* value returned by decode_rdo
    battery,   \* the ioreg battery dictionary: register name -> raw value
    data,      \* the dictionary get_battery_from_ioreg builds
    now,       \* the date datetime.now() returns: [year, month, day]
    date_ret,  \* value returned by decode_manufacture_date
    colors,    \* the class attributes of Colors
    flag_raw,  \* argument of a bit-flag register decoder
    flag_dec,  \* name of the bit-flag register decoder that ran
    flag_out,  \* string returned by the bit-flag register decoder
    lk_fn,     \* name of the lookup or text decoder that ran
    lk_arg,    \* its argument
    lk_ret,    \* the value it returned
    lk_exc,    \* the exception it raised, "none" if it returned
    again_ret, \* the value a second call on the same argument returned
    lk_env,    \* the year of datetime.now() and the Colors attributes at the first call
    use_sudo,  \* PowerInfo.use_sudo
    ioreg_data, \* what get_ioreg_data('AppleSmartBattery') returns: a list of dictionaries
    active_port_idx, \* get_usbc_pd_info's local of that name at its return: <<idx>>, or <<>> for None
    pd_info    \* the dictionary get_usbc_pd_info returns

dateVars == <<now, date_ret>>

flagVars == <<colors, flag_raw, flag_dec, flag_out>>

lookupVars == <<lk_fn, lk_arg, lk_ret, lk_exc, again_ret, lk_env>>

usbcVars == <<use_sudo, ioreg_data, active_port_idx, pd_info>>

vars == <<pc, pdo, pdo_ret, fixed_v, fixed_i, rdo, rdo_ret, battery, data,
          now, date_ret, colors, flag_raw, flag_dec, flag_out,
          lk_fn, lk_arg, lk_ret, lk_exc, again_ret, lk_env, use_sudo, ioreg_data,
          active_port_idx, pd_info>>

----------------------------------------------------------------------------
(* Bounds of the model *)

\* Sampled bytes lie within ByteSpread of the ends of each quarter of 0..255.
ByteSpread == 0

\* Sampled 10-bit field values lie within FieldSpread of 0 and of 0x3FF.
FieldSpread == 4

\* Sampled register values lie within RegSpread of 0, 2^31, 2^32, 2^63, 2^64.
RegSpread == 0

----------------------------------------------------------------------------
(* Python values *)

None == [NoneType |-> TRUE]

EmptyDict == [k \in {} |-> TRUE]

\* n / d with a float divisor: the exact quotient, kept unreduced.
TrueDiv(n, d) == [num |-> n, den |-> d]

----------------------------------------------------------------------------
(* 32-bit words as bit vectors *)

WordBits == 0..31

RECURSIVE Pow2(_)
Pow2(n) == IF n = 0 THEN 1 ELSE 2 * Pow2(n - 1)

\* Bit i of the non-negative integer n.
IntBit(n, i) == (n \div Pow2(i)) % 2

ZeroWord == [i \in WordBits |-> 0]

\* The word whose bytes are b3 (bits 31:24) .. b0 (bits 7:0).
WordOfBytes(b3, b2, b1, b0) ==
    LET bytes == <<b0, b1, b2, b3>>
    IN  [i \in WordBits |-> IntBit(bytes[(i \div 8) + 1], i % 8)]

\* w >> n
ShiftRight(w, n) == [i \in WordBits |-> IF i + n \in WordBits THEN w[i + n] ELSE 0]

\* w << n, kept to 32 bits
ShiftLeft(w, n) == [i \in WordBits |-> IF i - n \in WordBits THEN w[i - n] ELSE 0]

\* a | b
BitOr(a, b) == [i \in WordBits |-> IF a[i] = 1 \/ b[i] = 1 THEN 1 ELSE 0]

\* The word holding the integer n, 0 <= n < 2^31.
WordOfInt(n) == [i \in WordBits |-> IF i < 31 THEN IntBit(n, i) ELSE 0]

RECURSIVE SumBits(_, _, _)
SumBits(w, mask, i) ==
    IF i < 0 THEN 0
    ELSE (IF w[i] = 1 /\ IntBit(mask, i) = 1 THEN Pow2(i) ELSE 0) + SumBits(w, mask, i - 1)

\* w & mask for an integer mask 0 <= mask < 2^31; the result is an integer.
AndMask(w, mask) == SumBits(w, mask, 30)

----------------------------------------------------------------------------
(* PowerInfo.decode_pdo *)

\* pdo_type = (pdo >> 30) & 0x3
pdo_type_of(w) == AndMask(ShiftRight(w, 30), 3)

\* Variant of decode_pdo_fixed that scales the voltage field by 100 mV.
decode_pdo_fixed_scale100(w) ==
    LET voltage_mv == AndMask(ShiftRight(w, 10), 1023) * 100
        current_ma == AndMask(w, 1023) * 10
    IN  [pdo_type   |-> "Fixed",
         voltage_v  |-> TrueDiv(voltage_mv, 1000),
         current_a  |-> TrueDiv(current_ma, 1000),
         power_w    |-> TrueDiv(voltage_mv * current_ma, 1000000),
         voltage_mv |-> voltage_mv,
         current_ma |-> current_ma]

\* Variant of decode_pdo_fixed that reads the current from 9 bits only.
decode_pdo_fixed_mask9(w) ==
    LET voltage_mv == AndMask(ShiftRight(w, 10), 1023) * 50
        current_ma == AndMask(w, 511) * 10
    IN  [pdo_type   |-> "Fixed",
         voltage_v  |-> TrueDiv(voltage_mv, 1000),
         current_a  |-> TrueDiv(current_ma, 1000),
         power_w    |-> TrueDiv(voltage_mv * current_ma, 1000000),
         voltage_mv |-> voltage_mv,
         current_ma |-> current_ma]

\* Variant of decode_pdo_fixed that also stores the source word.
decode_pdo_fixed_with_raw(w) ==
    LET voltage_mv == AndMask(ShiftRight(w, 10), 1023) * 50
        current_ma == AndMask(w, 1023) * 10
    IN  [pdo_type   |-> "Fixed",
         voltage_v  |-> TrueDiv(voltage_mv, 1000),
         current_a  |-> TrueDiv(current_ma, 1000),
         power_w    |-> TrueDiv(voltage_mv * current_ma, 1000000),
         voltage_mv |-> voltage_mv,
         current_ma |-> current_ma,
         raw        |-> w]

\* The pdo_type == 0 branch (Fixed Supply PDO).
decode_pdo_fixed(w) ==
    LET voltage_mv == AndMask(ShiftRight(w, 10), 1023) * 50
        current_ma == AndMask(w, 1023) * 10
    IN  [pdo_type   |-> "Fixed",
         voltage_v  |-> TrueDiv(voltage_mv, 1000),
         current_a  |-> TrueDiv(current_ma, 1000),
         power_w    |-> TrueDiv(voltage_mv * current_ma, 1000000),
         voltage_mv |-> voltage_mv,
         current_ma |-> current_ma]

\* Variant of decode_pdo_pps that reads the maximum voltage from bits 23:16.
decode_pdo_pps_shift16(w) ==
    LET max_voltage_mv == AndMask(ShiftRight(w, 16), 255) * 100
        min_voltage_mv == AndMask(ShiftRight(w, 8), 255) * 100
        max_current_ma == AndMask(w, 127) * 50
    IN  [pdo_type      |-> "PPS",
         min_voltage_v |-> TrueDiv(min_voltage_mv, 1000),
         max_voltage_v |-> TrueDiv(max_voltage_mv, 1000),
         current_a     |-> TrueDiv(max_current_ma, 1000),
         voltage_mv    |-> max_voltage_mv,
         current_ma    |-> max_current_ma]

\* The pdo_type == 3 branch (Augmented PDO, PPS).
decode_pdo_pps(w) ==
    LET max_voltage_mv == AndMask(ShiftRight(w, 17), 255) * 100
        min_voltage_mv == AndMask(ShiftRight(w, 8), 255) * 100
        max_current_ma == AndMask(w, 127) * 50
    IN  [pdo_type      |-> "PPS",
         min_voltage_v |-> TrueDiv(min_voltage_mv, 1000),
         max_voltage_v |-> TrueDiv(max_voltage_mv, 1000),
         current_a     |-> TrueDiv(max_current_ma, 1000),
         voltage_mv    |-> max_voltage_mv,
         current_ma    |-> max_current_ma]

\* Variant of decode_pdo_other that keeps only the low 30 bits in 'raw'.
decode_pdo_other_low30(w) ==
    [pdo_type |-> "Type " \o ToString(pdo_type_of(w)),
     raw      |-> [i \in WordBits |-> IF i < 30 THEN w[i] ELSE 0]]

\* The fall-through return for the remaining types (1 and 2).
decode_pdo_other(w) ==
    [pdo_type |-> "Type " \o ToString(pdo_type_of(w)), raw |-> w]

\* Variant of decode_pdo without the early return for the zero word.
decode_pdo_no_zero_check(w) ==
    IF pdo_type_of(w) = 0 THEN decode_pdo_fixed(w)
    ELSE IF pdo_type_of(w) = 3 THEN decode_pdo_pps(w)
    ELSE decode_pdo_other(w)

decode_pdo(w) ==
    IF w = ZeroWord THEN None
    ELSE IF pdo_type_of(w) = 0 THEN decode_pdo_fixed(w)
    ELSE IF pdo_type_of(w) = 3 THEN decode_pdo_pps(w)
    ELSE decode_pdo_other(w)

----------------------------------------------------------------------------
(* PowerInfo.decode_rdo *)

HexDigits == <<"0", "1", "2", "3", "4", "5", "6", "7",
               "8", "9", "A", "B", "C", "D", "E", "F">>

\* f'0x{rdo:08X}' for a 32-bit word: "0x" and eight upper-case hex digits,
\* most significant first, kept as a sequence of characters.
FormatHex08X(w) ==
    <<"0", "x">> \o
    [k \in 1..8 |-> HexDigits[AndMask(ShiftRight(w, 4 * (8 - k)), 15) + 1]]

\* Variant of decode_rdo that returns None for the zero word.
decode_rdo_none_on_zero(w) ==
    IF w = ZeroWord THEN None
    ELSE [object_position      |-> AndMask(ShiftRight(w, 28), 7),
          operating_current_ma |-> AndMask(ShiftRight(w, 10), 1023) * 10,
          operating_current_a  |-> TrueDiv(AndMask(ShiftRight(w, 10), 1023) * 10, 1000),
          max_current_ma       |-> AndMask(w, 1023) * 10,
          max_current_a        |-> TrueDiv(AndMask(w, 1023) * 10, 1000),
          rdo_hex              |-> FormatHex08X(w)]

\* Variant of decode_rdo that reads the object position with a 4-bit mask.
decode_rdo_mask4(w) ==
    IF w = ZeroWord THEN EmptyDict
    ELSE [object_position      |-> AndMask(ShiftRight(w, 28), 15),
          operating_current_ma |-> AndMask(ShiftRight(w, 10), 1023) * 10,
          operating_current_a  |-> TrueDiv(AndMask(ShiftRight(w, 10), 1023) * 10, 1000),
          max_current_ma       |-> AndMask(w, 1023) * 10,
          max_current_a        |-> TrueDiv(AndMask(w, 1023) * 10, 1000),
          rdo_hex              |-> FormatHex08X(w)]

\* Variant of decode_rdo that swaps the operating and maximum current fields.
decode_rdo_swapped(w) ==
    IF w = ZeroWord THEN EmptyDict
    ELSE [object_position      |-> AndMask(ShiftRight(w, 28), 7),
          operating_current_ma |-> AndMask(w, 1023) * 10,
          operating_current_a  |-> TrueDiv(AndMask(w, 1023) * 10, 1000),
          max_current_ma       |-> AndMask(ShiftRight(w, 10), 1023) * 10,
          max_current_a        |-> TrueDiv(AndMask(ShiftRight(w, 10), 1023) * 10, 1000),
          rdo_hex              |-> FormatHex08X(w)]

decode_rdo(w) ==
    IF w = ZeroWord THEN EmptyDict
    ELSE
        LET obj_pos              == AndMask(ShiftRight(w, 28), 7)
            operating_current_ma == AndMask(ShiftRight(w, 10), 1023) * 10
            max_current_ma       == AndMask(w, 1023) * 10
        IN  [object_position      |-> obj_pos,
             operating_current_ma |-> operating_current_ma,
             operating_current_a  |-> TrueDiv(operating_current_ma, 1000),
             max_current_ma       |-> max_current_ma,
             max_current_a        |-> TrueDiv(max_current_ma, 1000),
             rdo_hex              |-> FormatHex08X(w)]

----------------------------------------------------------------------------
(* Big integers in radix 2^16, most significant limb first *)

Radix == Pow2(16)

\* Carry propagation: limbs 2..4 are brought into 0..Radix-1, limb 1 keeps the sign.
BigNorm(x) ==
    LET c0 == x[4] \div Radix
        l1 == x[3] + c0
        c1 == l1 \div Radix
        l2 == x[2] + c1
        c2 == l2 \div Radix
    IN  <<x[1] + c2, l2 % Radix, l1 % Radix, x[4] % Radix>>

\* x - y
BigSub(x, y) == BigNorm(<<x[1] - y[1], x[2] - y[2], x[3] - y[3], x[4] - y[4]>>)

\* x + n for a small integer n (positive or negative)
BigAddInt(x, n) == BigNorm(<<x[1], x[2], x[3], x[4] + n>>)

\* x >= y, by the first limb that differs
BigGeq(x, y) ==
    IF x[1] # y[1] THEN x[1] > y[1]
    ELSE IF x[2] # y[2] THEN x[2] > y[2]
    ELSE IF x[3] # y[3] THEN x[3] > y[3]
    ELSE x[4] >= y[4]

BigZero == <<0, 0, 0, 0>>
Two31   == <<0, 0, 32768, 0>>       \* 2**31
Two32   == <<0, 1, 0, 0>>           \* 2**32
Two63   == <<32768, 0, 0, 0>>       \* 2**63
Two64   == <<65536, 0, 0, 0>>       \* 2**64

----------------------------------------------------------------------------
(* PowerInfo.get_battery_from_ioreg: the Amperage, InstantAmperage and       *)
(* BatteryData.FilteredCurrent registers.  The three copies of the overflow  *)
(* handling are modelled one by one.                                         *)

\* Variant of amperage_overflow that tests amp > 2**31.
amperage_overflow_strict(amp) ==
    IF amp # Two31 /\ BigGeq(amp, Two31) THEN BigSub(amp, Two32)
    ELSE IF BigGeq(amp, Two63) THEN BigSub(amp, Two64)
    ELSE amp

\* amp = battery['Amperage']; if amp >= 2**31: ... elif amp >= 2**63: ...
amperage_overflow(amp) ==
    IF BigGeq(amp, Two31) THEN BigSub(amp, Two32)
    ELSE IF BigGeq(amp, Two63) THEN BigSub(amp, Two64)
    ELSE amp

instant_amperage_overflow(inst_amp) ==
    IF BigGeq(inst_amp, Two31) THEN BigSub(inst_amp, Two32)
    ELSE IF BigGeq(inst_amp, Two63) THEN BigSub(inst_amp, Two64)
    ELSE inst_amp

filtered_current_overflow(filt_cur) ==
    IF BigGeq(filt_cur, Two31) THEN BigSub(filt_cur, Two32)
    ELSE IF BigGeq(filt_cur, Two63) THEN BigSub(filt_cur, Two64)
    ELSE filt_cur

\* d[k] = v
Put(d, k, v) == [x \in DOMAIN d \cup {k} |-> IF x = k THEN v ELSE d[x]]

\* The part of get_battery_from_ioreg that reads the three current registers
\* of the battery dictionary b into a fresh data dictionary.
battery_currents(b) ==
    LET d0 == EmptyDict
        d1 == IF "Amperage" \in DOMAIN b
              THEN LET amp == amperage_overflow(b["Amperage"])
                   IN  Put(Put(d0, "amperage_ma", amp),
                           "amperage_a", TrueDiv(amp, 1000))
              ELSE d0
        d2 == IF "InstantAmperage" \in DOMAIN b
              THEN LET inst_amp == instant_amperage_overflow(b["InstantAmperage"])
                   IN  Put(Put(d1, "instant_amperage_ma", inst_amp),
                           "instant_amperage_a", TrueDiv(inst_amp, 1000))
              ELSE d1
        d3 == IF "BatteryData" \in DOMAIN b
                 /\ "FilteredCurrent" \in DOMAIN b["BatteryData"]
              THEN LET filt_cur ==
                           filtered_current_overflow(b["BatteryData"]["FilteredCurrent"])
                   IN  Put(Put(d2, "filtered_current_ma", filt_cur),
                           "filtered_current_a", TrueDiv(filt_cur, 1000))
              ELSE d2
    IN  d3

----------------------------------------------------------------------------
(* Inputs *)

\* Bytes near the ends of each quarter 0..63, 64..127, 128..191, 192..255.
ByteSamples ==
    {q * 64 + k : q \in 0..3, k \in (0..ByteSpread) \cup ((63 - ByteSpread)..63)}

PdoWords == {WordOfBytes(b3, b2, b1, b0) : b3, b2, b1, b0 \in ByteSamples}

\* 10-bit field values near 0 and near 0x3FF.
FieldSamples == (0..FieldSpread) \cup ((1023 - FieldSpread)..1023)

\* Register values next to 0, 2**31, 2**32, 2**63 and below 2**64.
RegValues ==
    {BigAddInt(B, j) : B \in {BigZero, Two31, Two32, Two63}, j \in 0..RegSpread}
    \cup
    {BigAddInt(B, -1 - j) : B \in {Two31, Two32, Two63, Two64}, j \in 0..RegSpread}

BatteryKeys == {"Amperage", "InstantAmperage", "BatteryData"}

MakeBattery(K, a, i, f) ==
    [k \in K \cap BatteryKeys |->
        CASE k = "Amperage"        -> a
          [] k = "InstantAmperage" -> i
          [] k = "BatteryData"     -> [j \in K \cap {"FilteredCurrent"} |-> f]]

BatteryDicts ==
    UNION { {MakeBattery(K, a, i, f) : a, i, f \in RegValues} :
            K \in SUBSET (BatteryKeys \cup {"FilteredCurrent"}) }

----------------------------------------------------------------------------
(* Values of the variables a specification does not use *)

ColorsEnabled ==
    [RESET |-> "^[[0m", BOLD |-> "^[[1m", DIM |-> "^[[2m", RED |-> "^[[31m",
     GREEN |-> "^[[32m", YELLOW |-> "^[[33m", BLUE |-> "^[[34m",
     MAGENTA |-> "^[[35m", CYAN |-> "^[[36m"]

\* Colors.disable()
ColorsDisabled ==
    [RESET |-> "", BOLD |-> "", DIM |-> "", RED |-> "", GREEN |-> "",
     YELLOW |-> "", BLUE |-> "", MAGENTA |-> "", CYAN |-> ""]

IdlePd ==
    /\ pdo = ZeroWord
    /\ pdo_ret = None
    /\ fixed_v = 0
    /\ fixed_i = 0
    /\ rdo = ZeroWord
    /\ rdo_ret = None

IdleDate ==
    /\ now = [year |-> 2026, month |-> 1, day |-> 1]
    /\ date_ret = None

IdleFlags ==
    /\ colors = ColorsEnabled
    /\ flag_raw = 0
    /\ flag_dec = "none"
    /\ flag_out = <<>>

IdleLookup ==
    /\ lk_fn = "none"
    /\ lk_arg = 0
    /\ lk_ret = <<>>
    /\ lk_exc = "none"
    /\ again_ret = <<>>
    /\ lk_env = None

IdleUsbc ==
    /\ use_sudo = FALSE
    /\ ioreg_data = <<>>
    /\ active_port_idx = <<>>
    /\ pd_info = EmptyDict

----------------------------------------------------------------------------
(* Specification of decode_pdo on an arbitrary word *)

InitPdo ==
    /\ pc = "ready"
    /\ pdo \in PdoWords
    /\ pdo_ret = None
    /\ fixed_v = 0
    /\ fixed_i = 0
    /\ rdo = ZeroWord
    /\ rdo_ret = None
    /\ battery = EmptyDict
    /\ data = EmptyDict
    /\ IdleDate
    /\ IdleFlags
    /\ IdleLookup
    /\ IdleUsbc

DecodePdo ==
    /\ pc = "ready"
    /\ pdo_ret' = decode_pdo(pdo)
    /\ pc' = "done"
    /\ UNCHANGED <<pdo, fixed_v, fixed_i, rdo, rdo_ret, battery, data, dateVars, flagVars,
                 lookupVars, usbcVars>>

NextPdo == DecodePdo

SpecPdo == InitPdo /\ [][NextPdo]_vars

----------------------------------------------------------------------------
(* Specification of the Fixed round trip: encode (V, I), then decode_pdo *)

\* The Fixed encoding of V millivolts and I milliamps: type bits 00,
\* V/50 in bits 19:10, I/10 in bits 9:0.
encode_pdo_fixed(V, I) ==
    BitOr(ShiftLeft(WordOfInt(V \div 50), 10), WordOfInt(I \div 10))

InitRoundTrip ==
    /\ pc = "ready"
    /\ fixed_v \in {50 * k : k \in FieldSamples}
    /\ fixed_i \in {10 * k : k \in FieldSamples}
    /\ pdo = ZeroWord
    /\ pdo_ret = None
    /\ rdo = ZeroWord
    /\ rdo_ret = None
    /\ battery = EmptyDict
    /\ data = EmptyDict
    /\ IdleDate
    /\ IdleFlags
    /\ IdleLookup
    /\ IdleUsbc

EncodeDecodeFixed ==
    /\ pc = "ready"
    /\ pdo' = encode_pdo_fixed(fixed_v, fixed_i)
    /\ pdo_ret' = decode_pdo(pdo')
    /\ pc' = "done"
    /\ UNCHANGED <<fixed_v, fixed_i, rdo, rdo_ret, battery, data, dateVars, flagVars,
                 lookupVars, usbcVars>>

NextRoundTrip == EncodeDecodeFixed

SpecRoundTrip == InitRoundTrip /\ [][NextRoundTrip]_vars

----------------------------------------------------------------------------
(* Specification of decode_rdo on an arbitrary word *)

InitRdo ==
    /\ pc = "ready"
    /\ rdo \in PdoWords
    /\ rdo_ret = None
    /\ pdo = ZeroWord
    /\ pdo_ret = None
    /\ fixed_v = 0
    /\ fixed_i = 0
    /\ battery = EmptyDict
    /\ data = EmptyDict
    /\ IdleDate
    /\ IdleFlags
    /\ IdleLookup
    /\ IdleUsbc

DecodeRdo ==
    /\ pc = "ready"
    /\ rdo_ret' = decode_rdo(rdo)
    /\ pc' = "done"
    /\ UNCHANGED <<rdo, pdo, pdo_ret, fixed_v, fixed_i, battery, data, dateVars, flagVars,
                 lookupVars, usbcVars>>

NextRdo == DecodeRdo

SpecRdo == InitRdo /\ [][NextRdo]_vars

----------------------------------------------------------------------------
(* Specification of the current registers of get_battery_from_ioreg *)

InitBattery ==
    /\ pc = "ready"
    /\ battery \in BatteryDicts
    /\ data = EmptyDict
    /\ pdo = ZeroWord
    /\ pdo_ret = None
    /\ fixed_v = 0
    /\ fixed_i = 0
    /\ rdo = ZeroWord
    /\ rdo_ret = None
    /\ IdleDate
    /\ IdleFlags
    /\ IdleLookup
    /\ IdleUsbc

GetBatteryCurrents ==
    /\ pc = "ready"
    /\ data' = battery_currents(battery)
    /\ pc' = "done"
    /\ UNCHANGED <<battery, pdo, pdo_ret, fixed_v, fixed_i, rdo, rdo_ret, dateVars, flagVars,
                 lookupVars, usbcVars>>

NextBattery == GetBatteryCurrents

SpecBattery == InitBattery /\ [][NextBattery]_vars

----------------------------------------------------------------------------
(* Vocabulary of the properties *)

\* bits[hi:lo] of the word w, read bit by bit.
RECURSIVE BitField(_, _, _)
BitField(w, hi, lo) == IF hi < lo THEN 0 ELSE w[lo] + 2 * BitField(w, hi, lo + 1)

\* The word w with bit i inverted.
FlipBit(w, i) == [j \in WordBits |-> IF j = i THEN 1 - w[j] ELSE w[j]]

\* The value of an upper-case hex digit.
HexValue(c) == CHOOSE n \in 0..15 : HexDigits[n + 1] = c

\* The word spelled by "0x" followed by eight hex digits.
ParseHex08X(h) == [i \in WordBits |-> IntBit(HexValue(h[10 - (i \div 4)]), i % 4)]

\* Keys that name an integer millivolt or milliamp quantity.
MilliKeys ==
    {"voltage_mv", "current_ma", "min_voltage_mv", "max_voltage_mv", "max_current_ma"}

PdoDone == pc = "done" /\ pdo_ret # None

----------------------------------------------------------------------------
(* Properties of decode_pdo *)

\* C1 (as stated): for every V (multiple of 50 mV up to 0x3FF*50) and I (multiple
\* of 10 mA up to 0x3FF*10), V = 0 and I = 0 included, decoding the Fixed
\* encoding of (V, I) yields a Fixed result with voltage_mv = V, current_ma = I.
C1_RoundTripEveryVI ==
    pc = "done" =>
        /\ pdo_ret # None
        /\ pdo_ret.pdo_type = "Fixed"
        /\ pdo_ret.voltage_mv = fixed_v
        /\ pdo_ret.current_ma = fixed_i

\* C1 (amended): the round trip holds for every such (V, I) except V = 0 and
\* I = 0 together, whose encoding is the word 0 and decodes to None.
C1_RoundTripNonZero ==
    pc = "done" =>
        IF fixed_v = 0 /\ fixed_i = 0
        THEN pdo = ZeroWord /\ pdo_ret = None
        ELSE /\ pdo_ret # None
             /\ pdo_ret.pdo_type = "Fixed"
             /\ pdo_ret.voltage_mv = fixed_v
             /\ pdo_ret.current_ma = fixed_i

\* C1 witness: a round trip with V = 0 and the largest current.
C1_Witness ==
    /\ PdoDone
    /\ fixed_v = 0
    /\ fixed_i = 10230
    /\ pdo_ret.pdo_type = "Fixed"
    /\ pdo_ret.current_ma = 10230

\* C2 (as stated): every word whose bits 31:30 are 00 decodes to a Fixed result
\* with voltage_mv = bits[19:10]*50 and current_ma = bits[9:0]*10.
C2_FixedEveryWord ==
    pc = "done" /\ BitField(pdo, 31, 30) = 0 =>
        /\ pdo_ret # None
        /\ pdo_ret.pdo_type = "Fixed"
        /\ pdo_ret.voltage_mv = BitField(pdo, 19, 10) * 50
        /\ pdo_ret.current_ma = BitField(pdo, 9, 0) * 10

\* C2 (amended): every non-zero word whose bits 31:30 are 00 decodes to a Fixed
\* result with voltage_mv = bits[19:10]*50 and current_ma = bits[9:0]*10; the
\* word 0 decodes to None.
C2_FixedNonZeroWord ==
    pc = "done" /\ BitField(pdo, 31, 30) = 0 =>
        IF pdo = ZeroWord
        THEN pdo_ret = None
        ELSE /\ pdo_ret # None
             /\ pdo_ret.pdo_type = "Fixed"
             /\ pdo_ret.voltage_mv = BitField(pdo, 19, 10) * 50
             /\ pdo_ret.current_ma = BitField(pdo, 9, 0) * 10

\* C2 witness: a Fixed word with bits set above the voltage field and a current
\* that needs all ten bits.
C2_Witness ==
    /\ PdoDone
    /\ BitField(pdo, 31, 30) = 0
    /\ BitField(pdo, 29, 20) # 0
    /\ BitField(pdo, 9, 0) >= 512
    /\ pdo_ret.pdo_type = "Fixed"

\* C3: decode_pdo returns None exactly for the word 0, and every non-zero word
\* decodes to the variant its bits 31:30 select (00 Fixed, 11 PPS, 01 and 10 Other).
C3_NoneIffZero ==
    pc = "done" =>
        /\ (pdo_ret = None) <=> (pdo = ZeroWord)
        /\ pdo # ZeroWord =>
              pdo_ret.pdo_type =
                  CASE BitField(pdo, 31, 30) = 0 -> "Fixed"
                    [] BitField(pdo, 31, 30) = 1 -> "Type 1"
                    [] BitField(pdo, 31, 30) = 2 -> "Type 2"
                    [] BitField(pdo, 31, 30) = 3 -> "PPS"

\* C3 witness: a non-zero word with all of bits 29:0 clear, decoded as Other.
C3_Witness ==
    /\ PdoDone
    /\ BitField(pdo, 31, 30) = 2
    /\ BitField(pdo, 29, 0) = 0
    /\ pdo_ret.pdo_type = "Type 2"

\* C5 (as stated): a word with bits 31:30 = 11 decodes to a PPS result in which
\* the maximum voltage bits[24:17]*100, the minimum voltage bits[15:8]*100 and
\* the maximum current bits[6:0]*50 are each held by an integer mV / mA field.
C5_PpsThreeIntegerFields ==
    pc = "done" /\ BitField(pdo, 31, 30) = 3 =>
        /\ pdo_ret # None
        /\ pdo_ret.pdo_type = "PPS"
        /\ \E k \in MilliKeys \cap DOMAIN pdo_ret :
              pdo_ret[k] = BitField(pdo, 24, 17) * 100
        /\ \E k \in MilliKeys \cap DOMAIN pdo_ret :
              pdo_ret[k] = BitField(pdo, 15, 8) * 100
        /\ \E k \in MilliKeys \cap DOMAIN pdo_ret :
              pdo_ret[k] = BitField(pdo, 6, 0) * 50

\* C5 (amended): a word with bits 31:30 = 11 decodes to a PPS result whose
\* integer fields are voltage_mv = bits[24:17]*100 (the maximum voltage) and
\* current_ma = bits[6:0]*50; the minimum voltage bits[15:8]*100 is held only
\* as min_voltage_v, the millivolt value divided by 1000.0 (volts), beside
\* max_voltage_v and current_a.
C5_PpsFields ==
    pc = "done" /\ BitField(pdo, 31, 30) = 3 =>
        /\ pdo_ret # None
        /\ DOMAIN pdo_ret = {"pdo_type", "min_voltage_v", "max_voltage_v",
                             "current_a", "voltage_mv", "current_ma"}
        /\ pdo_ret.pdo_type = "PPS"
        /\ pdo_ret.voltage_mv = BitField(pdo, 24, 17) * 100
        /\ pdo_ret.current_ma = BitField(pdo, 6, 0) * 50
        /\ pdo_ret.min_voltage_v = [num |-> BitField(pdo, 15, 8) * 100, den |-> 1000]
        /\ pdo_ret.max_voltage_v = [num |-> BitField(pdo, 24, 17) * 100, den |-> 1000]
        /\ pdo_ret.current_a = [num |-> BitField(pdo, 6, 0) * 50, den |-> 1000]

\* C5 witness: a PPS word whose minimum voltage differs from its maximum
\* voltage and from its maximum current.
C5_Witness ==
    /\ PdoDone
    /\ BitField(pdo, 31, 30) = 3
    /\ BitField(pdo, 24, 17) = 128
    /\ BitField(pdo, 15, 8) = 63
    /\ BitField(pdo, 6, 0) = 127
    /\ pdo_ret.pdo_type = "PPS"

\* C6: a word with bits 31:30 equal to 01 or 10 decodes to an Other result that
\* holds the type tag (1 or 2) and the unmodified word, and nothing else.
C6_OtherKeepsRaw ==
    pc = "done" /\ BitField(pdo, 31, 30) \in {1, 2} =>
        /\ pdo_ret # None
        /\ DOMAIN pdo_ret = {"pdo_type", "raw"}
        /\ pdo_ret.pdo_type = (IF BitField(pdo, 31, 30) = 1 THEN "Type 1" ELSE "Type 2")
        /\ pdo_ret.raw = pdo

\* C6 witness: a type-1 word with every other bit set.
C6_Witness ==
    /\ PdoDone
    /\ BitField(pdo, 31, 30) = 1
    /\ BitField(pdo, 29, 16) = 16383
    /\ pdo_ret.pdo_type = "Type 1"
    /\ pdo_ret.raw = pdo

\* C7 (as stated): every populated result of decode_pdo carries the raw source
\* word.
C7_EveryResultHasRaw ==
    PdoDone => "raw" \in DOMAIN pdo_ret /\ pdo_ret.raw = pdo

\* C7 (amended): a populated result carries the raw source word exactly when it
\* is an Other result (bits 31:30 = 01 or 10); Fixed and PPS results have no
\* raw field, and the word cannot be recovered from them: inverting bit 25 of a
\* Fixed word or bit 7 of a PPS word leaves the result unchanged.
C7_RawOnlyInOther ==
    PdoDone =>
        /\ "raw" \in DOMAIN pdo_ret <=> BitField(pdo, 31, 30) \in {1, 2}
        /\ "raw" \in DOMAIN pdo_ret => pdo_ret.raw = pdo
        /\ BitField(pdo, 31, 30) = 0 /\ FlipBit(pdo, 25) # ZeroWord =>
              decode_pdo(FlipBit(pdo, 25)) = pdo_ret
        /\ BitField(pdo, 31, 30) = 3 => decode_pdo(FlipBit(pdo, 7)) = pdo_ret

\* C7 witness: a Fixed result, which has no raw field.
C7_Witness ==
    /\ PdoDone
    /\ pdo_ret.pdo_type = "Fixed"
    /\ pdo_ret.voltage_mv > 0
    /\ "raw" \notin DOMAIN pdo_ret

----------------------------------------------------------------------------
(* Properties of decode_rdo *)

RdoDone == pc = "done" /\ rdo # ZeroWord

\* C4 (as stated): decode_rdo(0) returns None, the value decode_pdo(0) returns,
\* and never a populated or empty record.
C4_RdoZeroIsNone ==
    pc = "done" /\ rdo = ZeroWord =>
        /\ rdo_ret = None
        /\ rdo_ret = decode_pdo(ZeroWord)
        /\ rdo_ret # EmptyDict

\* C4 (amended): decode_rdo(0) returns the empty dictionary {}, a record with
\* no field; it is not the None that decode_pdo(0) returns.
C4_RdoZeroIsEmptyDict ==
    pc = "done" /\ rdo = ZeroWord =>
        /\ rdo_ret = EmptyDict
        /\ DOMAIN rdo_ret = {}
        /\ rdo_ret # None
        /\ rdo_ret # decode_pdo(ZeroWord)

\* C4 witness: decode_rdo has run on the word 0 and returned a record without
\* fields.
C4_Witness ==
    /\ pc = "done"
    /\ rdo = ZeroWord
    /\ DOMAIN rdo_ret = {}

\* C8: for every non-zero word, decode_rdo gives object_position = bits[30:28],
\* operating_current_ma = bits[19:10]*10, max_current_ma = bits[9:0]*10, and
\* carries the word itself (as rdo_hex, "0x" and eight hex digits that spell it).
C8_RdoFields ==
    RdoDone =>
        /\ rdo_ret.object_position = BitField(rdo, 30, 28)
        /\ rdo_ret.operating_current_ma = BitField(rdo, 19, 10) * 10
        /\ rdo_ret.max_current_ma = BitField(rdo, 9, 0) * 10
        /\ Len(rdo_ret.rdo_hex) = 10
        /\ SubSeq(rdo_ret.rdo_hex, 1, 2) = <<"0", "x">>
        /\ ParseHex08X(rdo_ret.rdo_hex) = rdo

\* C8 witness: a word with bit 31 set whose operating current differs from its
\* maximum current.
C8_Witness ==
    /\ RdoDone
    /\ rdo[31] = 1
    /\ rdo_ret.object_position = 3
    /\ rdo_ret.operating_current_ma = 10230
    /\ rdo_ret.max_current_ma = 8310

\* C9 (as stated): the object_position of every decoded non-zero word is in 1..7.
C9_ObjectPositionFrom1 ==
    RdoDone => rdo_ret.object_position \in 1..7

\* C9 (amended): the object_position of every decoded non-zero word is in 0..7;
\* it is 0 for the non-zero words whose bits 30:28 are all clear.
C9_ObjectPositionFrom0 ==
    RdoDone =>
        /\ rdo_ret.object_position \in 0..7
        /\ rdo_ret.object_position = 0 <=> (rdo[30] = 0 /\ rdo[29] = 0 /\ rdo[28] = 0)

\* C9 witness: a non-zero word decoded with object_position 0.
C9_Witness ==
    /\ RdoDone
    /\ rdo[31] = 0
    /\ rdo_ret.object_position = 0
    /\ rdo_ret.max_current_ma > 0

----------------------------------------------------------------------------
(* Properties of the overflow recovery in get_battery_from_ioreg *)

\* C10: every Amperage, InstantAmperage or FilteredCurrent value v with
\* 2^63 <= v < 2^64 is stored as v - 2^64.
C10_Recover64 ==
    pc = "done" =>
        /\ "Amperage" \in DOMAIN battery /\ BigGeq(battery["Amperage"], Two63) =>
              data["amperage_ma"] = BigSub(battery["Amperage"], Two64)
        /\ "InstantAmperage" \in DOMAIN battery
              /\ BigGeq(battery["InstantAmperage"], Two63) =>
              data["instant_amperage_ma"] = BigSub(battery["InstantAmperage"], Two64)
        /\ "BatteryData" \in DOMAIN battery
              /\ "FilteredCurrent" \in DOMAIN battery["BatteryData"]
              /\ BigGeq(battery["BatteryData"]["FilteredCurrent"], Two63) =>
              data["filtered_current_ma"] =
                  BigSub(battery["BatteryData"]["FilteredCurrent"], Two64)

\* C11: every Amperage, InstantAmperage or FilteredCurrent value v with
\* 0 <= v < 2^31 is stored unchanged and every v with 2^31 <= v < 2^32 is stored
\* as v - 2^32; the stored value lies in [-2^31, 2^31), is congruent to v modulo
\* 2^32, and is always stored (there is no error path).
C11_RegisterOk(present, v, key) ==
    present /\ ~BigGeq(v, Two32) =>
        /\ key \in DOMAIN data
        /\ data[key] = (IF BigGeq(v, Two31) THEN <<-1, Radix - 1, v[3], v[4]>> ELSE v)
        /\ BigGeq(data[key], <<-1, Radix - 1, Radix \div 2, 0>>)
        /\ ~BigGeq(data[key], Two31)
        /\ data[key][3] = v[3]
        /\ data[key][4] = v[4]

C11_Recover32 ==
    pc = "done" =>
        /\ C11_RegisterOk("Amperage" \in DOMAIN battery,
                          battery["Amperage"], "amperage_ma")
        /\ C11_RegisterOk("InstantAmperage" \in DOMAIN battery,
                          battery["InstantAmperage"], "instant_amperage_ma")
        /\ C11_RegisterOk("BatteryData" \in DOMAIN battery
                              /\ "FilteredCurrent" \in DOMAIN battery["BatteryData"],
                          battery["BatteryData"]["FilteredCurrent"],
                          "filtered_current_ma")

\* C11 witness: Amperage 2^31 stored as -2^31 and InstantAmperage 2^31 - 1
\* stored unchanged.
C11_Witness ==
    /\ pc = "done"
    /\ "Amperage" \in DOMAIN battery
    /\ "InstantAmperage" \in DOMAIN battery
    /\ battery["Amperage"] = Two31
    /\ battery["InstantAmperage"] = <<0, 0, 32767, 65535>>
    /\ data["amperage_ma"] = <<-1, 65535, 32768, 0>>
    /\ data["instant_amperage_ma"] = <<0, 0, 32767, 65535>>

----------------------------------------------------------------------------
(* Characters and strings *)

\* The printable ASCII characters, code points 32..126 (the grave accent, 96,
\* is written by its number).
AsciiPrintable ==
    <<
      " ", "!", "\"", "#", "$", "%", "&", "'", "(", ")", "*", "+",
      ",", "-", ".", "/", "0", "1", "2", "3", "4", "5", "6", "7",
      "8", "9", ":", ";", "<", "=", ">", "?", "@", "A", "B", "C",
      "D", "E", "F", "G", "H", "I", "J", "K", "L", "M", "N", "O",
      "P", "Q", "R", "S", "T", "U", "V", "W", "X", "Y", "Z", "[",
      "\\", "]", "^", "_", "\\x96", "a", "b", "c", "d", "e", "f", "g",
      "h", "i", "j", "k", "l", "m", "n", "o", "p", "q", "r", "s",
      "t", "u", "v", "w", "x", "y", "z", "{", "|", "}", "~" >>

\* The one-character string of code point b < 128; a control character is
\* written by its number.
Chr(b) == IF b \in 32..126 THEN AsciiPrintable[b - 31] ELSE "\\x" \o ToString(b)

\* The string of a sequence of code points.
RECURSIVE StrOf(_)
StrOf(cs) == IF cs = <<>> THEN "" ELSE Chr(Head(cs)) \o StrOf(Tail(cs))

\* The string a sequence of pieces spells.
RECURSIVE Render(_)
Render(pieces) == IF pieces = <<>> THEN "" ELSE Head(pieces) \o Render(Tail(pieces))

\* f"{n:02d}" for 0 <= n
Pad2(n) == IF n < 10 THEN "0" \o ToString(n) ELSE ToString(n)

\* str.isspace() / the white space int() strips, on ASCII
IsSpace(c) == c \in (9..13) \cup (28..32)

IsDigit(c) == c \in 48..57

\* Variant of int1 that reads the letters A to F as the digits 10 to 15.
int1_hex(c) ==
    IF IsDigit(c) THEN <<c - 48>>
    ELSE IF c \in 65..70 THEN <<c - 55>>
    ELSE <<>>

\* int(s) of a one-character string: <<value>>, or <<>> for ValueError.
int1(c) == IF IsDigit(c) THEN <<c - 48>> ELSE <<>>

\* int(s) of a two-character string: two digits, a digit beside white space,
\* or a sign and a digit; <<>> for ValueError.
int2(a, b) ==
    IF IsDigit(a) /\ IsDigit(b) THEN <<10 * (a - 48) + (b - 48)>>
    ELSE IF IsSpace(a) /\ IsDigit(b) THEN <<b - 48>>
    ELSE IF IsDigit(a) /\ IsSpace(b) THEN <<a - 48>>
    ELSE IF a = 43 /\ IsDigit(b) THEN <<b - 48>>
    ELSE IF a = 45 /\ IsDigit(b) THEN <<0 - (b - 48)>>
    ELSE <<>>

----------------------------------------------------------------------------
(* PowerInfo.decode_manufacture_date                                         *)
(* The argument date_raw is given by the bytes of its hex rendering          *)
(* (bytes.fromhex of hex(date_raw)[2:], left-padded to even length): a       *)
(* non-empty byte sequence without a leading zero byte, or <<0>> for 0.      *)

\* bytes.decode('ascii', errors='ignore')
ascii_ignore(bs) == SelectSeq(bs, LAMBDA b : b < 128)

\* Variant of resolve_year that moves on when year <= current_year - 10.
resolve_year_le(year_suffix, current_year) ==
    IF 2000 + year_suffix <= current_year - 10
    THEN IF 2010 + year_suffix <= current_year - 10
         THEN 2020 + year_suffix
         ELSE 2010 + year_suffix
    ELSE 2000 + year_suffix

\* Variant of resolve_year that tests the third candidate too and gives up
\* (year 0) when it is too old.
resolve_year_checks_third(year_suffix, current_year) ==
    IF 2000 + year_suffix < current_year - 10
    THEN IF 2010 + year_suffix < current_year - 10
         THEN IF 2020 + year_suffix < current_year - 10
              THEN 0
              ELSE 2020 + year_suffix
         ELSE 2010 + year_suffix
    ELSE 2000 + year_suffix

\* year = 2000 + year_suffix, moved to the 2010s or 2020s when too far back.
resolve_year(year_suffix, current_year) ==
    IF 2000 + year_suffix < current_year - 10
    THEN IF 2010 + year_suffix < current_year - 10
         THEN 2020 + year_suffix
         ELSE 2010 + year_suffix
    ELSE 2000 + year_suffix

is_leap(year) == year % 4 = 0 /\ (year % 100 # 0 \/ year % 400 = 0)

days_in_month(year, month) ==
    IF month = 2 THEN (IF is_leap(year) THEN 29 ELSE 28)
    ELSE IF month \in {4, 6, 9, 11} THEN 30
    ELSE 31

\* Variant of datetime_ok that accepts every day up to 31.
datetime_ok_any_day(year, month, day) ==
    /\ year \in 1..9999
    /\ month \in 1..12
    /\ day \in 1..31

\* datetime(year, month, day) does not raise ValueError.
datetime_ok(year, month, day) ==
    /\ year \in 1..9999
    /\ month \in 1..12
    /\ day \in 1..days_in_month(year, month)

decode_manufacture_date(date_bytes, current) ==
    LET date_str == ascii_ignore(date_bytes)
    IN  IF Len(date_str) >= 5 THEN
            LET month_p       == int1(date_str[1])
                day_p         == int2(date_str[2], date_str[3])
                year_suffix_p == int2(date_str[4], date_str[5])
                lot_code      == SubSeq(date_str, 6, Len(date_str))
            IN  IF month_p = <<>> \/ day_p = <<>> \/ year_suffix_p = <<>> THEN None
                ELSE
                    LET month == month_p[1]
                        day   == day_p[1]
                        year  == resolve_year(year_suffix_p[1], current.year)
                    IN  IF /\ 1 <= month /\ month <= 12
                           /\ 1 <= day /\ day <= 31
                           /\ 2000 <= year /\ year <= 2099
                           /\ datetime_ok(year, month, day)
                        THEN IF lot_code # <<>>
                             THEN <<ToString(year), "-", Pad2(month), "-", Pad2(day),
                                    " (Lot: ", StrOf(lot_code), ")">>
                             ELSE <<ToString(year), "-", Pad2(month), "-", Pad2(day)>>
                        ELSE None
        ELSE None

\* The ManufactureDate lines of get_battery_from_ioreg, on batt_data.
battery_manufacture_date(batt_data, current) ==
    IF "ManufactureDate" \in DOMAIN batt_data
    THEN LET d1 == Put(EmptyDict, "manufacture_date_raw", batt_data["ManufactureDate"])
             decoded_date == decode_manufacture_date(batt_data["ManufactureDate"], current)
         IN  IF decoded_date # None
             THEN Put(d1, "manufacture_date", decoded_date)
             ELSE d1
    ELSE EmptyDict

----------------------------------------------------------------------------
(* Specification of the manufacture date *)

\* First current year of the model and the number of years after it.
FirstNowYear == 2012
NowYearSpan == 28

Nows ==
    {[year |-> y, month |-> md[1], day |-> md[2]] :
        y \in FirstNowYear..(FirstNowYear + NowYearSpan),
        md \in {<<1, 15>>, <<11, 3>>}}

\* Month characters "1" "2" "6" "A"; day pairs "00" "21" "29" "31" " 5";
\* year pairs "03" "04" "06" "16" "17" "23" "99" "-5"; lot codes "" and "3".
MonthChars == {49, 50, 54, 65}
DayPairs   == {<<48, 48>>, <<50, 49>>, <<50, 57>>, <<51, 49>>, <<32, 53>>}
YearPairs  == {<<48, 51>>, <<48, 52>>, <<48, 54>>, <<49, 54>>, <<49, 55>>, <<50, 51>>,
               <<57, 57>>, <<45, 53>>}
LotCodes   == {<<>>, <<51>>}

\* Raw dates: M DD YY lot, and a few that are too short, hold a byte that is
\* not ASCII, or are 0.
DateRaws ==
    {<<m>> \o d \o y \o l : m \in MonthChars, d \in DayPairs, y \in YearPairs,
                            l \in LotCodes}
    \cup {<<0>>, <<54, 50, 49>>, <<54, 50, 49, 48>>,
          <<179, 54, 50, 49, 48, 51, 51>>, <<54, 50, 179, 49, 48, 51>>}

InitDate ==
    /\ pc = "ready"
    /\ battery \in {[BatteryData |-> [ManufactureDate |-> b]] : b \in DateRaws}
                   \cup {[BatteryData |-> EmptyDict]}
    /\ now \in Nows
    /\ date_ret = None
    /\ data = EmptyDict
    /\ IdlePd
    /\ IdleFlags
    /\ IdleLookup
    /\ IdleUsbc

GetManufactureDate ==
    /\ pc = "ready"
    /\ data' = battery_manufacture_date(battery["BatteryData"], now)
    /\ date_ret' = IF "ManufactureDate" \in DOMAIN battery["BatteryData"]
                   THEN decode_manufacture_date(
                            battery["BatteryData"]["ManufactureDate"], now)
                   ELSE None
    /\ pc' = "done"
    /\ UNCHANGED <<battery, now, pdo, pdo_ret, fixed_v, fixed_i, rdo, rdo_ret, flagVars,
                 lookupVars, usbcVars>>

NextDate == GetManufactureDate

SpecDate == InitDate /\ [][NextDate]_vars

----------------------------------------------------------------------------
(* Properties of decode_manufacture_date *)

DateDone == pc = "done" /\ "ManufactureDate" \in DOMAIN battery["BatteryData"]

DateRaw == battery["BatteryData"]["ManufactureDate"]

\* The raw date spells M DD YY (five ASCII digits), with or without a lot code.
Spelled == Len(DateRaw) >= 5 /\ \A i \in 1..Len(DateRaw) : i <= 5 => DateRaw[i] \in 48..57

SpelledM  == DateRaw[1] - 48
SpelledDD == 10 * (DateRaw[2] - 48) + (DateRaw[3] - 48)
SpelledYY == 10 * (DateRaw[4] - 48) + (DateRaw[5] - 48)

\* The k-th century candidate, k = 0, 1, 2.
Candidate(k) == 2000 + 10 * k + SpelledYY

MonthLengths == <<31, 28, 31, 30, 31, 30, 31, 31, 30, 31, 30, 31>>

\* (y, m, d) is a date of the calendar.
RealDate(y, m, d) ==
    /\ m \in 1..12
    /\ d >= 1
    /\ d <= (IF m = 2 /\ ((y % 4 = 0 /\ y % 100 # 0) \/ y % 400 = 0)
             THEN 29 ELSE MonthLengths[m])

\* The date (y, m, d) lies more than 10 years before the current date.
TooOld(y, m, d) ==
    \/ y + 10 < now.year
    \/ y + 10 = now.year /\ m < now.month
    \/ y + 10 = now.year /\ m = now.month /\ d < now.day

\* The year the decoder settles on: the first of the first two candidates
\* that is not below the current year minus 10, otherwise the third.
ChosenK ==
    CHOOSE k \in 0..2 :
        /\ k = 2 \/ Candidate(k) >= now.year - 10
        /\ \A j \in 0..2 : j < k => Candidate(j) < now.year - 10

\* The returned string for year y, the spelled month and day, and the lot.
DateString(y) ==
    ToString(y) \o "-0" \o ToString(SpelledM) \o "-"
    \o (IF SpelledDD < 10 THEN "0" ELSE "") \o ToString(SpelledDD)
    \o (IF Len(DateRaw) > 5
        THEN " (Lot: " \o StrOf(SubSeq(DateRaw, 6, Len(DateRaw))) \o ")"
        ELSE "")

ExampleRaw == <<54, 50, 49, 48, 51, 51>>

----------------------------------------------------------------------------
(* Bit-flag register decoders.  A raw register value is a non-negative
   integer; a table is the sequence of the dict's items in insertion order,
   each item <<bit, desc>>. *)

RECURSIVE IntAnd(_, _)
\* a & b for non-negative integers.
IntAnd(a, b) ==
    IF a = 0 \/ b = 0 THEN 0
    ELSE (a % 2) * (b % 2) + 2 * IntAnd(a \div 2, b \div 2)

RECURSIVE HexUpper(_)
\* format(n, 'X'): upper-case hex digits without padding.
HexUpper(n) ==
    IF n < 16 THEN HexDigits[n + 1]
    ELSE HexUpper(n \div 16) \o HexDigits[(n % 16) + 1]

RECURSIVE HexLen(_)
\* Number of hex digits of n.
HexLen(n) == IF n < 16 THEN 1 ELSE 1 + HexLen(n \div 16)

RECURSIVE Repeat(_, _)
\* s * k
Repeat(s, k) == IF k <= 0 THEN "" ELSE s \o Repeat(s, k - 1)

\* format(n, '0<width>X'): zero-padded to at least width digits.
FormatHexX(n, width) == Repeat("0", width - HexLen(n)) \o HexUpper(n)

RECURSIVE Join(_, _)
\* sep.join(items), as the items with the separator between them.
Join(items, sep) ==
    IF items = <<>> THEN <<>>
    ELSE IF Len(items) = 1 THEN <<items[1]>>
    ELSE <<items[1], sep>> \o Join(Tail(items), sep)

\* [desc for bit, desc in table.items() if bit > 0 and (value & bit)]
ActiveDescs(table, value) ==
    LET sel == SelectSeq(table, LAMBDA it : it[1] > 0 /\ IntAnd(value, it[1]) # 0)
    IN  [i \in 1..Len(sel) |-> sel[i][2]]

\* [desc for bit, desc in table.items() if value & bit]
ActiveDescsAnyBit(table, value) ==
    LET sel == SelectSeq(table, LAMBDA it : IntAnd(value, it[1]) # 0)
    IN  [i \in 1..Len(sel) |-> sel[i][2]]

\* [str(i) for i in range(16) if value & (1 << i)]
ActiveBits(value) ==
    LET idx == SelectSeq([i \in 1..16 |-> i - 1],
                         LAMBDA i : IntAnd(value, Pow2(i)) # 0)
    IN  [k \in 1..Len(idx) |-> ToString(idx[k])]

\* The warning sign followed by two spaces, written with escapes.
WarningSign == "\\u26A0\\uFE0F  "

charger_inhibit_reasons ==
    << <<0,  "Not inhibited">>,
       <<1,  "Battery too hot">>,
       <<2,  "Battery too cold">>,
       <<4,  "System thermal limiting">>,
       <<8,  "Optimized battery charging">>,
       <<16, "Battery charge limit (80%)">>,
       <<32, "Adapter insufficient">>,
       <<64, "Battery health protection">> >>

\* Variant of _decode_charger_inhibit_reason that answers "None" when no
\* table bit is set.
_decode_charger_inhibit_reason_none_on_unknown(reason) ==
    IF reason = 0 THEN <<"None">>
    ELSE LET active_reasons == ActiveDescs(charger_inhibit_reasons, reason)
         IN  IF active_reasons # <<>> THEN Join(active_reasons, ", ")
             ELSE <<"None">>

_decode_charger_inhibit_reason(reason) ==
    IF reason = 0 THEN <<"None">>
    ELSE LET active_reasons == ActiveDescs(charger_inhibit_reasons, reason)
         IN  IF active_reasons # <<>> THEN Join(active_reasons, ", ")
             ELSE <<"Unknown (0x", FormatHexX(reason, 2), ")">>

not_charging_reasons ==
    << <<0,     "Charging normally">>,
       <<1,     "Battery fully charged">>,
       <<2,     "Optimized Battery Charging active">>,
       <<4,     "Battery too hot">>,
       <<8,     "Battery too cold">>,
       <<16,    "Charging suspended (system load)">>,
       <<32,    "Battery health management">>,
       <<64,    "Charge limit reached (80%)">>,
       <<128,   "Adapter insufficient power">>,
       <<256,   "System using more than adapter provides">>,
       <<512,   "Waiting for optimal charging time">>,
       <<1024,  "Battery conditioning mode">>,
       <<2048,  "Thermal management">>,
       <<4096,  "Battery calibration">>,
       <<8192,  "Power management override">>,
       <<16384, "Unknown reason">>,
       <<32768, "Charger error">> >>

\* Variant of _decode_not_charging_reason without the exact-match return.
_decode_not_charging_reason_no_exact(reason) ==
    IF reason = 0 THEN <<"None (charging normally)">>
    ELSE LET active_reasons == ActiveDescs(not_charging_reasons, reason)
         IN  IF active_reasons # <<>>
             THEN Join(active_reasons, ", ") \o <<" (0x", FormatHexX(reason, 4), ")">>
             ELSE <<"Unknown (0x", FormatHexX(reason, 4), ")">>

_decode_not_charging_reason(reason) ==
    IF reason = 0 THEN <<"None (charging normally)">>
    ELSE IF \E i \in 1..Len(not_charging_reasons) : not_charging_reasons[i][1] = reason
    THEN LET i == CHOOSE i \in 1..Len(not_charging_reasons) :
                      not_charging_reasons[i][1] = reason
         IN  <<not_charging_reasons[i][2]>>
    ELSE LET active_reasons == ActiveDescs(not_charging_reasons, reason)
         IN  IF active_reasons # <<>>
             THEN Join(active_reasons, ", ") \o <<" (0x", FormatHexX(reason, 4), ")">>
             ELSE <<"Unknown (0x", FormatHexX(reason, 4), ")">>

\* Variant of _decode_charger_config that looks at bits 0..14 only.
_decode_charger_config_15_bits(config, Colors) ==
    LET active_bits == ActiveBits(config % Pow2(15))
    IN  IF active_bits # <<>>
        THEN <<"0x", FormatHexX(config, 4), " (bits: ">> \o Join(active_bits, ", ")
             \o <<")", "\n", Repeat(" ", 21), Colors.YELLOW,
                  WarningSign \o "Bit meanings undocumented by Apple", Colors.RESET>>
        ELSE <<"0x", FormatHexX(config, 4), " (no bits set)">>

_decode_charger_config(config, Colors) ==
    LET active_bits == ActiveBits(config)
    IN  IF active_bits # <<>>
        THEN <<"0x", FormatHexX(config, 4), " (bits: ">> \o Join(active_bits, ", ")
             \o <<")", "\n", Repeat(" ", 21), Colors.YELLOW,
                  WarningSign \o "Bit meanings undocumented by Apple", Colors.RESET>>
        ELSE <<"0x", FormatHexX(config, 4), " (no bits set)">>

slow_charging_reasons ==
    << <<1,   "Battery near full">>,
       <<2,   "Thermal limiting">>,
       <<4,   "Battery health protection">>,
       <<8,   "Optimized charging enabled">>,
       <<16,  "Low power adapter">>,
       <<32,  "System load too high">>,
       <<64,  "Battery temperature protection">>,
       <<128, "Charge limit (80%) active">>,
       <<256, "Battery conditioning">>,
       <<512, "Aging compensation">> >>

\* Variant of _decode_slow_charging_reason that reports the first active
\* reason only.
_decode_slow_charging_reason_first_only(reason) ==
    IF reason = 0 THEN <<"None (charging at normal speed)">>
    ELSE LET active_reasons == ActiveDescs(slow_charging_reasons, reason)
         IN  IF active_reasons # <<>>
             THEN <<active_reasons[1]>> \o <<" (0x", FormatHexX(reason, 4), ")">>
             ELSE <<"Unknown (0x", FormatHexX(reason, 4), ")">>

_decode_slow_charging_reason(reason) ==
    IF reason = 0 THEN <<"None (charging at normal speed)">>
    ELSE LET active_reasons == ActiveDescs(slow_charging_reasons, reason)
         IN  IF active_reasons # <<>>
             THEN Join(active_reasons, ", ") \o <<" (0x", FormatHexX(reason, 4), ")">>
             ELSE <<"Unknown (0x", FormatHexX(reason, 4), ")">>

permanent_failures ==
    << <<1,   "Cell imbalance failure">>,
       <<2,   "Safety circuit failure">>,
       <<4,   "Charge FET failure">>,
       <<8,   "Discharge FET failure">>,
       <<16,  "Thermistor failure">>,
       <<32,  "Fuse blown">>,
       <<64,  "AFE (Analog Front End) failure">>,
       <<128, "Cell failure">>,
       <<256, "Over-temperature failure">>,
       <<512, "Under-temperature failure">> >>

_decode_permanent_failure_status(status) ==
    IF status = 0 THEN <<"None (battery healthy)">>
    ELSE LET active_failures == ActiveDescsAnyBit(permanent_failures, status)
         IN  IF active_failures # <<>>
             THEN <<WarningSign>> \o Join(active_failures, ", ")
                  \o <<" (0x", FormatHexX(status, 4), ")">>
             ELSE <<WarningSign \o "Unknown failure (0x", FormatHexX(status, 4), ")">>

gauge_flag_bits ==
    << <<1,     "Discharge Detected">>,
       <<2,     "Charge Termination">>,
       <<4,     "Overcharge Detection">>,
       <<8,     "Terminate Discharge Alarm">>,
       <<16,    "Over-Temperature Alarm">>,
       <<32,    "Terminate Charge Alarm">>,
       <<64,    "Impedance Measured">>,
       <<128,   "Fully Charged (fast charge complete, trickle charging)">>,
       <<256,   "Discharge Inhibit">>,
       <<512,   "Charge Inhibit">>,
       <<1024,  "Voltage OK (VOK)">>,
       <<2048,  "Ready (RDY)">>,
       <<4096,  "Qualified for Use (QEN)">>,
       <<8192,  "Fast Charge OK">>,
       <<16384, "Battery Present">>,
       <<32768, "Valid Data">> >>

\* Variant of _decode_gauge_flag_raw without the early return for 0.
_decode_gauge_flag_raw_no_zero_check(flags) ==
    LET active_flags == ActiveDescsAnyBit(gauge_flag_bits, flags)
    IN  IF active_flags # <<>>
        THEN Join(active_flags, ", ") \o <<" (0x", FormatHexX(flags, 4), ")">>
        ELSE <<"0x", FormatHexX(flags, 4)>>

_decode_gauge_flag_raw(flags) ==
    IF flags = 0 THEN <<"None (0x00)">>
    ELSE LET active_flags == ActiveDescsAnyBit(gauge_flag_bits, flags)
         IN  IF active_flags # <<>>
             THEN Join(active_flags, ", ") \o <<" (0x", FormatHexX(flags, 4), ")">>
             ELSE <<"0x", FormatHexX(flags, 4)>>

\* Variant of _decode_misc_status that prints nothing once Colors.disable() ran.
_decode_misc_status_reads_colors(status) ==
    IF colors = ColorsDisabled THEN <<>>
    ELSE IF status = 0 THEN <<"None (0x00)">>
    ELSE <<"0x", FormatHexX(status, 4), " (bits: ">> \o Join(ActiveBits(status), ", ")
         \o <<")">>

_decode_misc_status(status) ==
    IF status = 0 THEN <<"None (0x00)">>
    ELSE LET active_bits == ActiveBits(status)
         IN  <<"0x", FormatHexX(status, 4), " (bits: ">> \o Join(active_bits, ", ")
             \o <<")">>

----------------------------------------------------------------------------
(* Specification of the bit-flag register decoders: one register value, one
   decoder applied to it, with colours on or switched off beforehand. *)

\* Register values have bits 0 .. FlagWidth - 1, at most MaxFlagBits of them set.
FlagWidth   == 18
MaxFlagBits == 3

RECURSIVE RawsWith(_)
\* The values with at most k bits set.
RawsWith(k) ==
    IF k = 0 THEN {0}
    ELSE LET less == RawsWith(k - 1)
         IN  less \cup {IF IntBit(r, b) = 1 THEN r ELSE r + Pow2(b) :
                            r \in less, b \in 0..(FlagWidth - 1)}

\* Sampled register values, with the full byte and the full 16-bit word.
FlagRaws == RawsWith(MaxFlagBits) \cup {Pow2(8) - 1, Pow2(16) - 1}

InitFlags ==
    /\ pc = "ready"
    /\ colors = ColorsEnabled
    /\ flag_raw \in FlagRaws
    /\ flag_dec = "none"
    /\ flag_out = <<>>
    /\ battery = [BatteryData |-> EmptyDict]
    /\ data = EmptyDict
    /\ IdlePd
    /\ IdleDate
    /\ IdleLookup
    /\ IdleUsbc

\* Colors.disable()
ColorsDisable ==
    /\ pc = "ready"
    /\ colors = ColorsEnabled
    /\ colors' = ColorsDisabled
    /\ UNCHANGED <<pc, flag_raw, flag_dec, flag_out, battery, data,
                   pdo, pdo_ret, fixed_v, fixed_i, rdo, rdo_ret, dateVars,
                   lookupVars, usbcVars>>

\* What a decoder call leaves alone.
flagRest == <<colors, flag_raw, battery, data,
              pdo, pdo_ret, fixed_v, fixed_i, rdo, rdo_ret, dateVars,
                   lookupVars, usbcVars>>

DecodeChargerInhibitReason ==
    /\ pc = "ready"
    /\ flag_dec' = "charger_inhibit_reason"
    /\ flag_out' = _decode_charger_inhibit_reason(flag_raw)
    /\ pc' = "done"
    /\ UNCHANGED flagRest

DecodeNotChargingReason ==
    /\ pc = "ready"
    /\ flag_dec' = "not_charging_reason"
    /\ flag_out' = _decode_not_charging_reason(flag_raw)
    /\ pc' = "done"
    /\ UNCHANGED flagRest

DecodeChargerConfig ==
    /\ pc = "ready"
    /\ flag_dec' = "charger_config"
    /\ flag_out' = _decode_charger_config(flag_raw, colors)
    /\ pc' = "done"
    /\ UNCHANGED flagRest

DecodeSlowChargingReason ==
    /\ pc = "ready"
    /\ flag_dec' = "slow_charging_reason"
    /\ flag_out' = _decode_slow_charging_reason(flag_raw)
    /\ pc' = "done"
    /\ UNCHANGED flagRest

DecodePermanentFailureStatus ==
    /\ pc = "ready"
    /\ flag_dec' = "permanent_failure_status"
    /\ flag_out' = _decode_permanent_failure_status(flag_raw)
    /\ pc' = "done"
    /\ UNCHANGED flagRest

DecodeGaugeFlagRaw ==
    /\ pc = "ready"
    /\ flag_dec' = "gauge_flag_raw"
    /\ flag_out' = _decode_gauge_flag_raw(flag_raw)
    /\ pc' = "done"
    /\ UNCHANGED flagRest

DecodeMiscStatus ==
    /\ pc = "ready"
    /\ flag_dec' = "misc_status"
    /\ flag_out' = _decode_misc_status(flag_raw)
    /\ pc' = "done"
    /\ UNCHANGED flagRest

NextFlags ==
    \/ ColorsDisable
    \/ DecodeChargerInhibitReason
    \/ DecodeNotChargingReason
    \/ DecodeChargerConfig
    \/ DecodeSlowChargingReason
    \/ DecodePermanentFailureStatus
    \/ DecodeGaugeFlagRaw
    \/ DecodeMiscStatus

SpecFlags == InitFlags /\ [][NextFlags]_vars

----------------------------------------------------------------------------
(* Properties of the bit-flag register decoders *)

FlagDone == pc = "done" /\ flag_dec # "none"

\* The decoders with a label table, and the two without.
Composable == {"charger_inhibit_reason", "not_charging_reason",
               "slow_charging_reason", "permanent_failure_status",
               "gauge_flag_raw"}

Undocumented == {"charger_config", "misc_status"}

TableOf(dec) ==
    CASE dec = "charger_inhibit_reason"   -> charger_inhibit_reasons
      [] dec = "not_charging_reason"      -> not_charging_reasons
      [] dec = "slow_charging_reason"     -> slow_charging_reasons
      [] dec = "permanent_failure_status" -> permanent_failures
      [] dec = "gauge_flag_raw"           -> gauge_flag_bits
      [] OTHER                            -> <<>>

\* The entries of a table with a non-zero mask, and all labels of a table.
Entries(dec) == {TableOf(dec)[i] : i \in DOMAIN TableOf(dec)} \ {e \in {TableOf(dec)[i] : i \in DOMAIN TableOf(dec)} : e[1] = 0}

Labels(dec) == {TableOf(dec)[i][2] : i \in DOMAIN TableOf(dec)}

AllLabels == UNION {Labels(dec) : dec \in Composable}

BitPositions == 0..29

SetBits(n) == {b \in BitPositions : IntBit(n, b) = 1}

\* The entries whose mask has a bit in common with n.
Matching(dec, n) == {e \in Entries(dec) : SetBits(e[1]) \cap SetBits(n) # {}}

\* n has a set bit that no entry of the table covers.
HasBitOutsideTable(dec, n) ==
    \E b \in SetBits(n) : \A e \in Entries(dec) : b \notin SetBits(e[1])

UpperHex == <<"0", "1", "2", "3", "4", "5", "6", "7",
              "8", "9", "A", "B", "C", "D", "E", "F">>

\* The k hex digits of n from position k - 1 down to position 0.
RECURSIVE HexText(_, _)
HexText(n, k) ==
    IF k = 0 THEN ""
    ELSE UpperHex[((n \div Pow2(4 * (k - 1))) % 16) + 1] \o HexText(n, k - 1)

\* The renderings of n in upper-case hexadecimal, with or without leading
\* zeros, up to 7 digits.
HexForms(n) == {HexText(n, k) : k \in {d \in 1..7 : n < Pow2(4 * d)}}

\* The positions of the output that hold the raw value in hexadecimal.
HexPlaces == {i \in DOMAIN flag_out : flag_out[i] \in HexForms(flag_raw)}

\* The labels of the output, in the order of their appearance.
LabelsShown == SelectSeq(flag_out, LAMBDA piece : piece \in Labels(flag_dec))

\* The labels of a set of entries in ascending order of their masks.
ByMask(S) ==
    [i \in 1..Cardinality(S) |->
        (CHOOSE e \in S : Cardinality({f \in S : f[1] < e[1]}) = i - 1)[2]]

\* The decimal numbers of a set of bit positions in ascending order.
Ascending(S) ==
    [i \in 1..Cardinality(S) |->
        ToString(CHOOSE b \in S : Cardinality({c \in S : c < b}) = i - 1)]

HasBitList == \E i \in DOMAIN flag_out : flag_out[i] = " (bits: "

\* The items of the bit list of the output: what stands between " (bits: "
\* and the next ")", every second piece being the separator ", ".
BitList ==
    LET i == CHOOSE i \in DOMAIN flag_out : flag_out[i] = " (bits: "
        j == CHOOSE j \in DOMAIN flag_out :
                 /\ j > i
                 /\ flag_out[j] = ")"
                 /\ \A k \in (i + 1)..(j - 1) : flag_out[k] # ")"
    IN  [k \in 1..((j - i) \div 2) |-> flag_out[i + 2 * k - 1]]

BitListSeparated ==
    LET i == CHOOSE i \in DOMAIN flag_out : flag_out[i] = " (bits: "
    IN  \A k \in 1..(Len(BitList) - 1) : flag_out[i + 2 * k] = ", "

\* The output of each decoder for the raw value 0.
ZeroLabel(dec) ==
    CASE dec = "charger_inhibit_reason"   -> "None"
      [] dec = "not_charging_reason"      -> "None (charging normally)"
      [] dec = "slow_charging_reason"     -> "None (charging at normal speed)"
      [] dec = "permanent_failure_status" -> "None (battery healthy)"
      [] dec = "gauge_flag_raw"           -> "None (0x00)"
      [] dec = "misc_status"              -> "None (0x00)"
      [] dec = "charger_config"           -> "0x0000 (no bits set)"

\* C15: for every composable decoder and every non-zero raw value that has a
\* bit outside the table or matches no table entry, the output contains the
\* raw value in hexadecimal.
C15_UnknownBitsKeptInHex ==
    /\ FlagDone
    /\ flag_dec \in Composable
    /\ flag_raw # 0
    /\ HasBitOutsideTable(flag_dec, flag_raw) \/ Matching(flag_dec, flag_raw) = {}
    => HexPlaces # {}

\* C16 (as stated): decoding 0 returns "Charging normally" for
\* not-charging-reason, "None (battery healthy)" for permanent-failure and
\* "None (0x00)" for gauge-flags and misc-status, and for no register a bare
\* hex rendering of zero.
C16_ZeroLabelsAsNamed ==
    FlagDone /\ flag_raw = 0 =>
        /\ flag_dec = "not_charging_reason" => Render(flag_out) = "Charging normally"
        /\ flag_dec = "permanent_failure_status" => Render(flag_out) = "None (battery healthy)"
        /\ flag_dec \in {"gauge_flag_raw", "misc_status"} => Render(flag_out) = "None (0x00)"
        /\ Render(flag_out) \notin {"0x00", "0x0000"}

\* C16 (amended): decoding 0 returns "None" for charger-inhibit,
\* "None (charging normally)" for not-charging-reason, "None (charging at
\* normal speed)" for slow-charging, "None (battery healthy)" for
\* permanent-failure, "None (0x00)" for gauge-flags and misc-status, and
\* "0x0000 (no bits set)" for charger-configuration.
C16_ZeroLabels ==
    FlagDone /\ flag_raw = 0 => Render(flag_out) = ZeroLabel(flag_dec)

\* C16 witness: not-charging-reason decoded for 0.
C16_Witness ==
    /\ FlagDone
    /\ flag_raw = 0
    /\ flag_dec = "not_charging_reason"
    /\ flag_out = <<"None (charging normally)">>

\* C17: for every composable decoder and non-zero raw value, the labels in the
\* output are exactly the labels of the table entries whose mask has a bit in
\* common with the raw value, in ascending order of the masks.
C17_EveryMatchingLabelInOrder ==
    FlagDone /\ flag_dec \in Composable /\ flag_raw # 0 =>
        LabelsShown = ByMask(Matching(flag_dec, flag_raw))

\* C17 witness: 1 | 64 decoded by the charger-inhibit decoder.
C17_Witness ==
    /\ FlagDone
    /\ flag_dec = "charger_inhibit_reason"
    /\ flag_raw = 1 + 64
    /\ flag_out = <<"Battery too hot", ", ", "Battery health protection">>

\* C18 (as stated): 0x8000 is absent from the not-charging-reason table, and
\* for every raw value with bit 0x8000 set the output contains the raw value
\* in hexadecimal exactly once.
C18_Bit8000Unclassified ==
    FlagDone /\ flag_dec = "not_charging_reason" /\ IntBit(flag_raw, 15) = 1 =>
        /\ \A e \in Entries("not_charging_reason") : e[1] # Pow2(15)
        /\ Cardinality(HexPlaces) = 1

\* C18 (amended): 0x8000 is in the not-charging-reason table with the label
\* "Charger error"; every raw value with bit 0x8000 set is decoded to a string
\* containing that label; for 0x8000 alone the output is the label without any
\* hexadecimal, and with any further bit set it contains the raw value in
\* hexadecimal exactly once.
C18_Bit8000IsChargerError ==
    FlagDone /\ flag_dec = "not_charging_reason" /\ IntBit(flag_raw, 15) = 1 =>
        /\ <<Pow2(15), "Charger error">> \in Entries("not_charging_reason")
        /\ \E i \in DOMAIN flag_out : flag_out[i] = "Charger error"
        /\ flag_raw = Pow2(15) => flag_out = <<"Charger error">> /\ HexPlaces = {}
        /\ flag_raw # Pow2(15) => Cardinality(HexPlaces) = 1

\* C18 witness: 0x8000 alone.
C18_Witness ==
    /\ FlagDone
    /\ flag_dec = "not_charging_reason"
    /\ flag_raw = Pow2(15)
    /\ flag_out = <<"Charger error">>

\* C19 (as stated): for charger-configuration and misc-status and every
\* non-zero raw value of 16 or 32 bits, the output contains the raw value in
\* hexadecimal and a bit list holding exactly the positions of all set bits in
\* ascending order, and no label.
C19_BitListOfAllSetBits ==
    FlagDone /\ flag_dec \in Undocumented /\ flag_raw # 0 =>
        /\ HexPlaces # {}
        /\ HasBitList
        /\ BitList = Ascending(SetBits(flag_raw))
        /\ \A i \in DOMAIN flag_out : flag_out[i] \notin AllLabels

\* C19 (amended): for charger-configuration and misc-status and every non-zero
\* raw value, the output contains the raw value in hexadecimal and no label;
\* its bit list holds exactly the positions below 16 of the set bits, in
\* ascending order, so it holds all set bits exactly when the value is below
\* 2^16; charger-configuration gives no list but "(no bits set)" when no bit
\* below 16 is set.
C19_BitListOfSetBitsBelow16 ==
    FlagDone /\ flag_dec \in Undocumented /\ flag_raw # 0 =>
        /\ HexPlaces # {}
        /\ \A i \in DOMAIN flag_out : flag_out[i] \notin AllLabels
        /\ HasBitList =>
              /\ BitList = Ascending(SetBits(flag_raw) \cap 0..15)
              /\ BitListSeparated
        /\ flag_raw < Pow2(16) => HasBitList
        /\ ~HasBitList =>
              /\ flag_dec = "charger_config"
              /\ SetBits(flag_raw) \cap 0..15 = {}
              /\ flag_out[Len(flag_out)] = " (no bits set)"
        /\ flag_dec = "charger_config" /\ HasBitList =>
              /\ flag_out[Len(flag_out)] = colors.RESET
              /\ flag_out[Len(flag_out) - 2] = colors.YELLOW

\* C19 witness: charger-configuration 0x0005 has the bit list 0, 2.
C19_Witness ==
    /\ FlagDone
    /\ flag_dec = "charger_config"
    /\ flag_raw = 5
    /\ HasBitList
    /\ BitList = <<"0", "2">>
    /\ HexPlaces # {}

\* C20: for every decoder the output for 0 is the zero-state label and differs
\* from the output for every non-zero raw value; a non-zero value that matches
\* no table entry gives an output with the raw value in hexadecimal.
C20_ZeroDistinguished ==
    FlagDone =>
        /\ flag_raw = 0 => Render(flag_out) = ZeroLabel(flag_dec)
        /\ flag_raw # 0 =>
              /\ Render(flag_out) # ZeroLabel(flag_dec)
              /\ Matching(flag_dec, flag_raw) = {} =>
                    /\ HexPlaces # {}
                    /\ \A i \in DOMAIN flag_out : flag_out[i] # ZeroLabel(flag_dec)

\* C20 witness: 0x80 matches no entry of the charger-inhibit table.
C20_Witness ==
    /\ FlagDone
    /\ flag_dec = "charger_inhibit_reason"
    /\ flag_raw = 128
    /\ flag_out = <<"Unknown (0x", "80", ")">>

----------------------------------------------------------------------------
(* Lookup decoders: _decode_chem_id and _decode_charger_id *)

\* table.get(key): <<value>> for the item with that key, <<>> for None.
Get(table, key) ==
    IF \E i \in DOMAIN table : table[i][1] = key
    THEN <<table[CHOOSE i \in DOMAIN table : table[i][1] = key][2]>>
    ELSE <<>>

\* bool(x) of what Get returned: neither None nor the empty string.
Truthy(x) == x # <<>> /\ x[1] # ""

\* format(n, '0<width>X') for any integer: the sign counts in the width.
FormatHexSigned(n, width) ==
    IF n < 0 THEN "-" \o Repeat("0", width - 1 - HexLen(0 - n)) \o HexUpper(0 - n)
    ELSE FormatHexX(n, width)

chem_ids ==
    << <<29961, "Li-ion (High Energy)">>,
       <<29960, "Li-ion (Standard)">>,
       <<29962, "Li-ion (High Power)">>,
       <<29963, "Li-ion Polymer">> >>

\* Variant of _decode_chem_id whose fallback writes 0 for every id.
_decode_chem_id_plain_fallback(chem_id) ==
    LET known_chem == Get(chem_ids, chem_id)
    IN  IF Truthy(known_chem)
        THEN <<known_chem[1], " (ID: ", ToString(chem_id), ")">>
        ELSE <<"Li-ion (ID: ", ToString(0), ")">>

_decode_chem_id(chem_id) ==
    LET known_chem == Get(chem_ids, chem_id)
    IN  IF Truthy(known_chem)
        THEN <<known_chem[1], " (ID: ", ToString(chem_id), ")">>
        ELSE <<"Li-ion (ID: ", ToString(chem_id), ")">>

charger_ids ==
    << <<0,  "Generic/Third-Party Charger">>,
       <<1,  "Apple 5W USB Power Adapter">>,
       <<2,  "Apple 10W USB Power Adapter">>,
       <<3,  "Apple 12W USB Power Adapter">>,
       <<4,  "Apple 18W USB-C Power Adapter">>,
       <<5,  "Apple 20W USB-C Power Adapter">>,
       <<6,  "Apple 29W USB-C Power Adapter">>,
       <<7,  "Apple 30W USB-C Power Adapter">>,
       <<8,  "Apple 35W Dual USB-C Power Adapter">>,
       <<9,  "Apple 61W USB-C Power Adapter">>,
       <<10, "Apple 67W USB-C Power Adapter">>,
       <<11, "Apple 87W USB-C Power Adapter">>,
       <<12, "Apple 96W USB-C Power Adapter">>,
       <<13, "Apple 140W USB-C Power Adapter">>,
       <<14, "Apple MagSafe Power Adapter">>,
       <<15, "Apple MagSafe 2 Power Adapter">>,
       <<16, "Apple MagSafe 3 Power Adapter">> >>

\* Variant of _decode_charger_id that tests the id, not the label, for truth
\* and whose fallback writes 00 for every id.
_decode_charger_id_truthy_id(charger_id) ==
    LET known_charger == Get(charger_ids, charger_id)
    IN  IF charger_id # 0 /\ Truthy(known_charger)
        THEN <<known_charger[1], " (ID: 0x", FormatHexSigned(charger_id, 2), ")">>
        ELSE <<"Unknown (ID: 0x", FormatHexSigned(0, 2), ")">>

_decode_charger_id(charger_id) ==
    LET known_charger == Get(charger_ids, charger_id)
    IN  IF Truthy(known_charger)
        THEN <<known_charger[1], " (ID: 0x", FormatHexSigned(charger_id, 2), ")">>
        ELSE <<"Unknown (ID: 0x", FormatHexSigned(charger_id, 2), ")">>

----------------------------------------------------------------------------
(* Specification of the two id decoders on one id *)

\* Ids lie within IdSpread of the tables' ranges and of zero.
IdSpread == 24

IdSamples ==
    ((0 - IdSpread)..(16 + IdSpread))
    \cup ((29960 - IdSpread)..(29963 + IdSpread))
    \cup {255, 256, 4660}

InitIds ==
    /\ pc = "ready"
    /\ lk_fn = "none"
    /\ lk_arg \in IdSamples
    /\ lk_ret = <<>>
    /\ lk_exc = "none"
    /\ again_ret = <<>>
    /\ lk_env = None
    /\ battery = [BatteryData |-> EmptyDict]
    /\ data = EmptyDict
    /\ IdlePd
    /\ IdleDate
    /\ IdleFlags
    /\ IdleUsbc

\* What a lookup or text decoder call leaves alone.
lookupRest == <<lk_arg, lk_exc, again_ret, lk_env, battery, data, pdo, pdo_ret, fixed_v, fixed_i,
                rdo, rdo_ret, dateVars, flagVars, usbcVars>>

DecodeChemId ==
    /\ pc = "ready"
    /\ lk_fn' = "_decode_chem_id"
    /\ lk_ret' = _decode_chem_id(lk_arg)
    /\ pc' = "done"
    /\ UNCHANGED lookupRest

DecodeChargerId ==
    /\ pc = "ready"
    /\ lk_fn' = "_decode_charger_id"
    /\ lk_ret' = _decode_charger_id(lk_arg)
    /\ pc' = "done"
    /\ UNCHANGED lookupRest

NextIds == DecodeChemId \/ DecodeChargerId

SpecIds == InitIds /\ [][NextIds]_vars

----------------------------------------------------------------------------
(* Properties of the id decoders *)

\* The renderings of an integer in upper-case hexadecimal.
SignedHexForms(n) ==
    IF n < 0 THEN {"-" \o h : h \in HexForms(0 - n)} ELSE HexForms(n)

\* The output has a piece that is the id: in hexadecimal for charger ids, in
\* decimal for chem ids.
EmbedsId(fn, out, id) ==
    \E i \in DOMAIN out :
        IF fn = "_decode_charger_id" THEN out[i] \in SignedHexForms(id)
        ELSE out[i] = ToString(id)

LabelOfId(fn, id) ==
    IF fn = "_decode_charger_id" THEN _decode_charger_id(id) ELSE _decode_chem_id(id)

\* C21: both id decoders return a non-null, non-empty label for every id; the
\* label embeds the id, for ids of the table and for the others, and no other
\* id has the same label.
C21_LabelEmbedsId ==
    pc = "done" /\ lk_fn \in {"_decode_charger_id", "_decode_chem_id"} =>
        /\ lk_ret # None
        /\ Render(lk_ret) # ""
        /\ EmbedsId(lk_fn, lk_ret, lk_arg)
        /\ \A other \in IdSamples \ {lk_arg} :
              Render(LabelOfId(lk_fn, other)) # Render(lk_ret)

\* C21 witness: charger id 0x00 is in the table and its label carries 0x00.
C21_Witness ==
    /\ pc = "done"
    /\ lk_fn = "_decode_charger_id"
    /\ lk_arg = 0
    /\ lk_ret = <<"Generic/Third-Party Charger", " (ID: 0x", "00", ")">>

----------------------------------------------------------------------------
(* PowerInfo._decode_wait_seconds *)

RECURSIVE JoinParts(_, _)
\* sep.join(parts) where every part is itself a sequence of pieces.
JoinParts(parts, sep) ==
    IF parts = <<>> THEN <<>>
    ELSE IF Len(parts) = 1 THEN parts[1]
    ELSE parts[1] \o <<sep>> \o JoinParts(Tail(parts), sep)

\* Variant of _decode_wait_seconds whose minutes are seconds // 60.
_decode_wait_seconds_all_minutes(seconds) ==
    IF seconds = 0 THEN <<"0 seconds">>
    ELSE
        LET hours   == seconds \div 3600
            minutes == seconds \div 60
            secs    == seconds % 60
            parts1  == IF hours > 0
                       THEN << <<ToString(hours), IF hours = 1 THEN " hr" ELSE " hrs">> >>
                       ELSE <<>>
            parts2  == IF minutes > 0
                       THEN Append(parts1, <<ToString(minutes), " min">>)
                       ELSE parts1
            parts   == IF secs > 0 \/ Len(parts2) = 0
                       THEN Append(parts2, <<ToString(secs), " sec">>)
                       ELSE parts2
        IN  JoinParts(parts, " ") \o <<" (", ToString(seconds), "s)">>

_decode_wait_seconds(seconds) ==
    IF seconds = 0 THEN <<"0 seconds">>
    ELSE
        LET hours   == seconds \div 3600
            minutes == (seconds % 3600) \div 60
            secs    == seconds % 60
            parts1  == IF hours > 0
                       THEN << <<ToString(hours), IF hours = 1 THEN " hr" ELSE " hrs">> >>
                       ELSE <<>>
            parts2  == IF minutes > 0
                       THEN Append(parts1, <<ToString(minutes), " min">>)
                       ELSE parts1
            parts   == IF secs > 0 \/ Len(parts2) = 0
                       THEN Append(parts2, <<ToString(secs), " sec">>)
                       ELSE parts2
        IN  JoinParts(parts, " ") \o <<" (", ToString(seconds), "s)">>

----------------------------------------------------------------------------
(* Specification of _decode_wait_seconds on one value *)

\* Seconds lie within WaitSpread of 0 and of one hour, two hours and one day;
\* a few negative values stand for a register that went wrong.
WaitSpread == 70

WaitSamples ==
    UNION {(base - WaitSpread)..(base + WaitSpread) : base \in {0, 3600, 7200, 86400}}

InitWait ==
    /\ pc = "ready"
    /\ lk_fn = "none"
    /\ lk_arg \in WaitSamples
    /\ lk_ret = <<>>
    /\ lk_exc = "none"
    /\ again_ret = <<>>
    /\ lk_env = None
    /\ battery = [BatteryData |-> EmptyDict]
    /\ data = EmptyDict
    /\ IdlePd
    /\ IdleDate
    /\ IdleFlags
    /\ IdleUsbc

DecodeWaitSeconds ==
    /\ pc = "ready"
    /\ lk_fn' = "_decode_wait_seconds"
    /\ lk_ret' = _decode_wait_seconds(lk_arg)
    /\ pc' = "done"
    /\ UNCHANGED lookupRest

NextWait == DecodeWaitSeconds

SpecWait == InitWait /\ [][NextWait]_vars

----------------------------------------------------------------------------
(* Properties of _decode_wait_seconds *)

\* The components of the output for h hours, m minutes and x seconds: the
\* non-zero ones, each a number and its unit.
Components(h, m, x) ==
    (IF h = 0 THEN <<>> ELSE << <<ToString(h), IF h = 1 THEN " hr" ELSE " hrs">> >>)
    \o (IF m = 0 THEN <<>> ELSE << <<ToString(m), " min">> >>)
    \o (IF x = 0 THEN <<>> ELSE << <<ToString(x), " sec">> >>)

\* The components, one blank between neighbours.
RECURSIVE Spaced(_)
Spaced(cs) ==
    IF Len(cs) = 0 THEN <<>>
    ELSE IF Len(cs) = 1 THEN cs[1]
    ELSE cs[1] \o <<" ">> \o Spaced(Tail(cs))

\* C30: for every s >= 0 there are hours, minutes < 60 and secs < 60 with
\* hours*3600 + minutes*60 + secs = s such that the output lists exactly the
\* non-zero ones of them (at least one) and then the original s; s = 0 gives
\* exactly "0 seconds".
C30_WaitSecondsDecomposed ==
    pc = "done" /\ lk_fn = "_decode_wait_seconds" /\ lk_arg >= 0 =>
        IF lk_arg = 0 THEN Render(lk_ret) = "0 seconds"
        ELSE \E h \in 0..(lk_arg \div 3600), m \in 0..59 :
                LET x == lk_arg - 3600 * h - 60 * m
                IN  /\ x \in 0..59
                    /\ Len(Components(h, m, x)) >= 1
                    /\ lk_ret = Spaced(Components(h, m, x))
                                \o <<" (", ToString(lk_arg), "s)">>

\* C30 witness: 3665 seconds are 1 hr 1 min 5 sec.
C30_Witness ==
    /\ pc = "done"
    /\ lk_fn = "_decode_wait_seconds"
    /\ lk_arg = 3665
    /\ Render(lk_ret) = "1 hr 1 min 5 sec (3665s)"

----------------------------------------------------------------------------
(* int(str) and int(str, 16).  A string is its sequence of code points; the
   value is a limb tuple (see BigNorm), <<value>> when the string is a
   number and <<>> when int raises ValueError. *)

RECURSIVE lstrip(_)
lstrip(cs) == IF cs # <<>> /\ IsSpace(Head(cs)) THEN lstrip(Tail(cs)) ELSE cs

RECURSIVE rstrip(_)
rstrip(cs) ==
    IF cs # <<>> /\ IsSpace(cs[Len(cs)]) THEN rstrip(SubSeq(cs, 1, Len(cs) - 1)) ELSE cs

\* The value of a digit character, -1 for any other character.
DigitVal(c) ==
    IF c \in 48..57 THEN c - 48
    ELSE IF c \in 97..122 THEN c - 87
    ELSE IF c \in 65..90 THEN c - 55
    ELSE 0 - 1

IsDigitOf(c, base) == DigitVal(c) >= 0 /\ DigitVal(c) < base

\* Digits with single underscores between them; one underscore may lead when
\* a base prefix came before.
digits_ok(ds, base, after_prefix) ==
    /\ ds # <<>>
    /\ \A i \in DOMAIN ds : IsDigitOf(ds[i], base) \/ ds[i] = 95
    /\ IsDigitOf(ds[Len(ds)], base)
    /\ after_prefix \/ IsDigitOf(ds[1], base)
    /\ \A i \in DOMAIN ds : i > 1 /\ ds[i] = 95 => ds[i - 1] # 95

BigNeg(x) == BigNorm(<<0 - x[1], 0 - x[2], 0 - x[3], 0 - x[4]>>)

RECURSIVE digits_value(_, _, _)
\* acc * base^k + the number the digits spell.
digits_value(ds, base, acc) ==
    IF ds = <<>> THEN acc
    ELSE IF Head(ds) = 95 THEN digits_value(Tail(ds), base, acc)
    ELSE digits_value(Tail(ds), base,
            BigNorm(<<acc[1] * base, acc[2] * base, acc[3] * base,
                      acc[4] * base + DigitVal(Head(ds))>>))

\* int(cs, base) for base 10 and 16.
int_str(cs, base) ==
    LET t        == rstrip(lstrip(cs))
        signed   == t # <<>> /\ t[1] \in {43, 45}
        body     == IF signed THEN Tail(t) ELSE t
        prefixed == base = 16 /\ Len(body) >= 2 /\ body[1] = 48 /\ body[2] \in {88, 120}
        ds       == IF prefixed THEN SubSeq(body, 3, Len(body)) ELSE body
    IN  IF digits_ok(ds, base, prefixed)
        THEN LET v == digits_value(ds, base, BigZero)
             IN  <<IF signed /\ t[1] = 45 THEN BigNeg(v) ELSE v>>
        ELSE <<>>

----------------------------------------------------------------------------
(* PowerInfo._decode_charger_family.  A call either returns a value or
   raises an exception. *)

Return(v) == [raised |-> "none", value |-> v]

Raise(kind) == [raised |-> kind, value |-> <<>>]

\* family_hex.startswith('0x')
startswith_0x(cs) == Len(cs) >= 2 /\ cs[1] = 48 /\ cs[2] = 120

\* The try block of _decode_charger_family.
charger_family_try(family_hex) ==
    LET parsed == IF startswith_0x(family_hex) THEN int_str(family_hex, 16)
                  ELSE int_str(family_hex, 10)
    IN  IF parsed = <<>> THEN Raise("ValueError")
        ELSE
            LET family_val == parsed[1]
                byte3      == (family_val[3] \div 256) % 256
                byte2      == family_val[3] % 256
                generation == IF byte3 = 224 THEN "USB-C PD charger"
                              ELSE IF byte3 = 0 /\ byte2 = 0 THEN "Legacy/MagSafe charger"
                              ELSE "Unknown charger type"
            IN  Return(<<StrOf(family_hex), " (", generation, ")">>)

\* Variant of _decode_charger_family that classifies what it could not parse.
_decode_charger_family_labels_unparsed(family_hex) ==
    LET tried == charger_family_try(family_hex)
    IN  IF tried.raised \in {"ValueError", "AttributeError"}
        THEN Return(<<StrOf(family_hex), " (", "Unknown charger type", ")">>)
        ELSE tried

\* Variant of _decode_charger_family without the except clause.
_decode_charger_family_uncaught(family_hex) ==
    charger_family_try(family_hex)

_decode_charger_family(family_hex) ==
    LET tried == charger_family_try(family_hex)
    IN  IF tried.raised \in {"ValueError", "AttributeError"}
        THEN Return(<<StrOf(family_hex)>>)
        ELSE tried

----------------------------------------------------------------------------
(* Specification of _decode_charger_family on one string *)

\* Eight hex digits: a top byte, a second byte and two low bytes, written
\* "e0" "E0" "00" "01" "10", then "00" "01", then "0000" "1234" "ffff".
FamilyTops    == {<<101, 48>>, <<69, 48>>, <<48, 48>>, <<48, 49>>, <<49, 48>>}
FamilySeconds == {<<48, 48>>, <<48, 49>>}
FamilyLows    == {<<48, 48, 48, 48>>, <<49, 50, 51, 52>>, <<102, 102, 102, 102>>}

\* No prefix, "0x" and "0X".
FamilyPrefixes == {<<>>, <<48, 120>>, <<48, 88>>}

\* Other strings: "", "0x", "0X", "0xe0", "0x0", "1234", "3758096384", "3758161920", "65535", "65536", "16777216", "-1", " 12 ",
\* "0x12 ", "1_000", "0x_e000_0000", "zz", "0xzz", "12a", "+5", "0x1e0000000", "1__0", "_1", "0x-1", "e0", "0xE0000000 "
FamilyOthers ==
    {<<>>,
     <<48, 120>>,
     <<48, 88>>,
     <<48, 120, 101, 48>>,
     <<48, 120, 48>>,
     <<49, 50, 51, 52>>,
     <<51, 55, 53, 56, 48, 57, 54, 51, 56, 52>>,
     <<51, 55, 53, 56, 49, 54, 49, 57, 50, 48>>,
     <<54, 53, 53, 51, 53>>,
     <<54, 53, 53, 51, 54>>,
     <<49, 54, 55, 55, 55, 50, 49, 54>>,
     <<45, 49>>,
     <<32, 49, 50, 32>>,
     <<48, 120, 49, 50, 32>>,
     <<49, 95, 48, 48, 48>>,
     <<48, 120, 95, 101, 48, 48, 48, 95, 48, 48, 48, 48>>,
     <<122, 122>>,
     <<48, 120, 122, 122>>,
     <<49, 50, 97>>,
     <<43, 53>>,
     <<48, 120, 49, 101, 48, 48, 48, 48, 48, 48, 48>>,
     <<49, 95, 95, 48>>,
     <<95, 49>>,
     <<48, 120, 45, 49>>,
     <<101, 48>>,
     <<48, 120, 69, 48, 48, 48, 48, 48, 48, 48, 32>>}

FamilyStrings ==
    {pre \o top \o second \o low : pre \in FamilyPrefixes, top \in FamilyTops,
                                   second \in FamilySeconds, low \in FamilyLows}
    \cup FamilyOthers

InitFamily ==
    /\ pc = "ready"
    /\ lk_fn = "none"
    /\ lk_arg \in FamilyStrings
    /\ lk_ret = <<>>
    /\ lk_exc = "none"
    /\ again_ret = <<>>
    /\ lk_env = None
    /\ battery = [BatteryData |-> EmptyDict]
    /\ data = EmptyDict
    /\ IdlePd
    /\ IdleDate
    /\ IdleFlags
    /\ IdleUsbc

\* What a call that may raise leaves alone.
familyRest == <<lk_arg, again_ret, lk_env, battery, data, pdo, pdo_ret, fixed_v, fixed_i,
                rdo, rdo_ret, dateVars, flagVars, usbcVars>>

DecodeChargerFamily ==
    /\ pc = "ready"
    /\ lk_fn' = "_decode_charger_family"
    /\ lk_ret' = _decode_charger_family(lk_arg).value
    /\ lk_exc' = _decode_charger_family(lk_arg).raised
    /\ pc' = "done"
    /\ UNCHANGED familyRest

NextFamily == DecodeChargerFamily

SpecFamily == InitFamily /\ [][NextFamily]_vars

----------------------------------------------------------------------------
(* Properties of _decode_charger_family *)

FamilyDone == pc = "done" /\ lk_fn = "_decode_charger_family"

\* The argument without a leading "0x".
Unprefixed(cs) ==
    IF Len(cs) >= 2 /\ cs[1] = 48 /\ cs[2] = 120 THEN SubSeq(cs, 3, Len(cs)) ELSE cs

IsHexChar(c) == c \in (48..57) \cup (65..70) \cup (97..102)

HexCharValue(c) == IF c <= 57 THEN c - 48 ELSE IF c <= 70 THEN c - 55 ELSE c - 87

\* The argument is a 32-bit identifier in hexadecimal: one to eight hex
\* digits, with or without "0x" before them.
IsHexIdentifier(cs) ==
    /\ Len(Unprefixed(cs)) \in 1..8
    /\ \A i \in DOMAIN Unprefixed(cs) : IsHexChar(Unprefixed(cs)[i])

\* Hex digit k (1 = most significant of eight) of a hex identifier.
HexDigitAt(cs, k) ==
    LET ds == Unprefixed(cs)
        i  == k - (8 - Len(ds))
    IN  IF i >= 1 THEN HexCharValue(ds[i]) ELSE 0

TopByte(cs)    == 16 * HexDigitAt(cs, 1) + HexDigitAt(cs, 2)
SecondByte(cs) == 16 * HexDigitAt(cs, 3) + HexDigitAt(cs, 4)

Bucket(cs) ==
    IF TopByte(cs) = 224 THEN "USB-C PD charger"
    ELSE IF TopByte(cs) = 0 /\ SecondByte(cs) = 0 THEN "Legacy/MagSafe charger"
    ELSE "Unknown charger type"

\* C22: a hex-encoded 32-bit identifier, with or without the 0x prefix, is
\* classified by its top two bytes alone: top byte 0xE0 is the USB-C PD
\* bucket, top two bytes 0x0000 the Legacy/MagSafe bucket, anything else the
\* unknown bucket, and the output names exactly that bucket.
C22_ClassifiedByTopBytes ==
    FamilyDone /\ IsHexIdentifier(lk_arg) =>
        /\ lk_exc = "none"
        /\ lk_ret = <<StrOf(lk_arg), " (", Bucket(lk_arg), ")">>

\* C23: an argument that is a number neither in decimal nor in hexadecimal is
\* returned unmodified, without a classification and without an exception.
C23_UnparseableUnmodified ==
    FamilyDone /\ int_str(lk_arg, 10) = <<>> /\ int_str(lk_arg, 16) = <<>> =>
        /\ lk_exc = "none"
        /\ lk_ret = <<StrOf(lk_arg)>>

\* C23 witness: "0xzz" comes back as it went in.
C23_Witness ==
    /\ FamilyDone
    /\ lk_arg = <<48, 120, 122, 122>>
    /\ int_str(lk_arg, 16) = <<>>
    /\ lk_exc = "none"
    /\ lk_ret = <<"0xzz">>

----------------------------------------------------------------------------
(* PowerInfo.decode_manufacturer_data.  The blob is a sequence of bytes, a
   string its sequence of code points. *)

\* char.isprintable() for an ASCII character.
IsPrintable(c) == c \in 32..126

RECURSIVE scan_parts(_, _, _, _)
\* The loop over text: parts and current after the characters from i on.
scan_parts(text, i, parts, current) ==
    IF i > Len(text) THEN <<parts, current>>
    ELSE IF IsPrintable(text[i]) /\ ~IsSpace(text[i])
    THEN scan_parts(text, i + 1, parts, Append(current, text[i]))
    ELSE IF current # <<>>
    THEN scan_parts(text, i + 1,
                    IF Len(current) >= 2 THEN Append(parts, current) ELSE parts,
                    <<>>)
    ELSE scan_parts(text, i + 1, parts, current)

\* Model, revision and manufacturer from the first three parts.
identify_parts(parts) ==
    LET r1 == IF Len(parts) >= 1 THEN Put(EmptyDict, "model", parts[1]) ELSE EmptyDict
        r2 == IF Len(parts) >= 2 THEN Put(r1, "revision", parts[2]) ELSE r1
    IN  IF Len(parts) >= 3 THEN Put(r2, "manufacturer", parts[3]) ELSE r2

\* Variant of decode_manufacturer_data that forgets the run the text ends in.
decode_manufacturer_data_drops_last(bytes) ==
    LET text    == ascii_ignore(bytes)
        scanned == scan_parts(text, 1, <<>>, <<>>)
    IN  identify_parts(scanned[1])

decode_manufacturer_data(bytes) ==
    LET text    == ascii_ignore(bytes)
        scanned == scan_parts(text, 1, <<>>, <<>>)
        parts   == IF scanned[2] # <<>> /\ Len(scanned[2]) >= 2
                   THEN Append(scanned[1], scanned[2])
                   ELSE scanned[1]
    IN  identify_parts(parts)

----------------------------------------------------------------------------
(* Specification of decode_manufacturer_data on one blob *)

\* A blob is up to MaxChunks chunks, each one of "A", "BC ", "DE" + NUL,
\* "f" + TAB, " " and the byte 200.
MaxChunks == 5

MfgChunks == {<<65>>, <<66, 67, 32>>, <<68, 69, 0>>, <<102, 9>>, <<32>>, <<200>>}

RECURSIVE Blobs(_)
Blobs(k) ==
    IF k = 0 THEN {<<>>}
    ELSE LET shorter == Blobs(k - 1)
         IN  shorter \cup {b \o c : b \in shorter, c \in MfgChunks}

InitMfg ==
    /\ pc = "ready"
    /\ lk_fn = "none"
    /\ lk_arg \in Blobs(MaxChunks)
    /\ lk_ret = <<>>
    /\ lk_exc = "none"
    /\ again_ret = <<>>
    /\ lk_env = None
    /\ battery = [BatteryData |-> EmptyDict]
    /\ data = EmptyDict
    /\ IdlePd
    /\ IdleDate
    /\ IdleFlags
    /\ IdleUsbc

DecodeManufacturerData ==
    /\ pc = "ready"
    /\ lk_fn' = "decode_manufacturer_data"
    /\ lk_ret' = decode_manufacturer_data(lk_arg)
    /\ pc' = "done"
    /\ UNCHANGED lookupRest

NextMfg == DecodeManufacturerData

SpecMfg == InitMfg /\ [][NextMfg]_vars

----------------------------------------------------------------------------
(* Properties of decode_manufacturer_data *)

MfgDone == pc = "done" /\ lk_fn = "decode_manufacturer_data"

\* The blob decoded as ASCII, undecodable bytes dropped.
MfgText == SelectSeq(lk_arg, LAMBDA b : b \in 0..127)

\* A printable character that is not white space.
IsTokenChar(c) == c \in 33..126

\* The maximal runs of token characters of the text, as <<first, last>>, that
\* are at least 2 characters long.
KeptRuns ==
    {r \in (1..Len(MfgText)) \X (1..Len(MfgText)) :
        /\ r[1] < r[2]
        /\ \A k \in r[1]..r[2] : IsTokenChar(MfgText[k])
        /\ r[1] = 1 \/ ~IsTokenChar(MfgText[r[1] - 1])
        /\ r[2] = Len(MfgText) \/ ~IsTokenChar(MfgText[r[2] + 1])}

\* The n-th kept run in order of appearance.
KeptRun(n) ==
    LET r == CHOOSE r \in KeptRuns : Cardinality({q \in KeptRuns : q[1] < r[1]}) = n - 1
    IN  SubSeq(MfgText, r[1], r[2])

MfgKeys == <<"model", "revision", "manufacturer">>

\* C24: the first three maximal runs of printable non-white-space characters
\* that are at least 2 long are model, revision and manufacturer, in order of
\* appearance; a key is present exactly when its run exists and no other key
\* is set.
C24_FirstThreeRuns ==
    MfgDone =>
        /\ DOMAIN lk_ret \subseteq {"model", "revision", "manufacturer"}
        /\ \A n \in 1..3 :
              /\ MfgKeys[n] \in DOMAIN lk_ret <=> Cardinality(KeptRuns) >= n
              /\ MfgKeys[n] \in DOMAIN lk_ret => lk_ret[MfgKeys[n]] = KeptRun(n)
        /\ "manufacturer" \in DOMAIN lk_ret => "revision" \in DOMAIN lk_ret
        /\ "revision" \in DOMAIN lk_ret => "model" \in DOMAIN lk_ret

\* C24 witness: "A", "BC ", "DE" NUL, "f" TAB, "BC " has the runs ABC, DE, BC
\* (the single f is dropped) and no fourth one.
C24_Witness ==
    /\ MfgDone
    /\ lk_arg = <<65, 66, 67, 32, 68, 69, 0, 102, 9, 66, 67, 32>>
    /\ lk_ret = [model |-> <<65, 66, 67>>, revision |-> <<68, 69>>,
                 manufacturer |-> <<66, 67>>]

----------------------------------------------------------------------------
(* The dates decode_manufacture_date returns *)

\* The raw date decoded as ASCII, undecodable bytes dropped.
DateText == SelectSeq(DateRaw, LAMBDA b : b \in 0..127)

TwoDigits(n) == IF n < 10 THEN "0" \o ToString(n) ELSE ToString(n)

\* C27: a returned date is a real calendar date with year in 2000..2099,
\* month in 1..9 and day in 1..31, written year-month-day, and its lot is
\* exactly the decoded characters after the fifth one (no lot part when there
\* are none).
C27_ReturnedDateIsReal ==
    DateDone /\ date_ret # None =>
        /\ \E y \in 2000..2099 :
              /\ date_ret[1] = ToString(y)
              /\ \E m \in 1..9 :
                    /\ date_ret[3] = TwoDigits(m)
                    /\ \E d \in 1..31 :
                          /\ date_ret[5] = TwoDigits(d)
                          /\ RealDate(y, m, d)
        /\ date_ret[2] = "-"
        /\ date_ret[4] = "-"
        /\ IF Len(DateText) > 5
           THEN /\ Len(date_ret) = 8
                /\ date_ret[6] = " (Lot: "
                /\ date_ret[7] = StrOf(SubSeq(DateText, 6, Len(DateText)))
                /\ date_ret[8] = ")"
           ELSE Len(date_ret) = 5

\* C27 witness: a date with a lot, read behind a byte that is not ASCII.
C27_Witness ==
    /\ DateDone
    /\ DateRaw = <<179, 54, 50, 49, 48, 51, 51>>
    /\ now.year = 2030
    /\ date_ret = <<"2023", "-", "06", "-", "21", " (Lot: ", "3", ")">>

----------------------------------------------------------------------------
(* PowerInfo.get_usbc_pd_info *)

\* d.get(k, default)
GetOr(d, k, default) == IF k \in DOMAIN d THEN d[k] ELSE default

\* bool(d) of a value that is None or a dictionary
DictTruthy(d) == d # None /\ DOMAIN d # {}

\* Variant of find_active_port that keeps scanning after a port with MaxPower.
RECURSIVE find_active_port_no_break(_, _, _)
find_active_port_no_break(port_info, i, fallback_port_idx) ==
    IF i > Len(port_info)
    THEN fallback_port_idx
    ELSE LET port      == port_info[i]
             rdo_      == GetOr(port, "PortControllerActiveContractRdo", ZeroWord)
             max_power == GetOr(port, "PortControllerMaxPower", 0)
         IN  IF rdo_ # ZeroWord /\ (max_power > 0 \/ fallback_port_idx = <<>>)
             THEN find_active_port_no_break(port_info, i + 1, <<i - 1>>)
             ELSE find_active_port_no_break(port_info, i + 1, fallback_port_idx)

\* The loop over enumerate(port_info) from the list position i on, and the
\* fallback after it: <<idx>> for the active port index, <<>> for None.
RECURSIVE find_active_port(_, _, _)
find_active_port(port_info, i, fallback_port_idx) ==
    IF i > Len(port_info)
    THEN fallback_port_idx
    ELSE LET port      == port_info[i]
             rdo_      == GetOr(port, "PortControllerActiveContractRdo", ZeroWord)
             max_power == GetOr(port, "PortControllerMaxPower", 0)
         IN  IF rdo_ # ZeroWord
             THEN IF max_power > 0
                  THEN <<i - 1>>
                  ELSE IF fallback_port_idx = <<>>
                       THEN find_active_port(port_info, i + 1, <<i - 1>>)
                       ELSE find_active_port(port_info, i + 1, fallback_port_idx)
             ELSE find_active_port(port_info, i + 1, fallback_port_idx)

\* Variant of active_port_of that keeps scanning after a port with MaxPower.
active_port_of_no_break(port_info) == find_active_port_no_break(port_info, 1, <<>>)

\* active_idx once the loop and the fallback are done.
active_port_of(port_info) == find_active_port(port_info, 1, <<>>)

pd_version_map(pd_rev) ==
    IF pd_rev = 0 THEN "1.0"
    ELSE IF pd_rev = 1 THEN "2.0"
    ELSE IF pd_rev = 2 THEN "3.0"
    ELSE IF pd_rev = 3 THEN "3.1"
    ELSE ToString(pd_rev)

\* The keys read from FedDetails[active_idx].
fed_fields(d, fed_details, active_idx) ==
    IF active_idx < Len(fed_details)
    THEN LET fed        == fed_details[active_idx + 1]
             pd_rev     == GetOr(fed, "FedPdSpecRevision", 0)
             power_role == GetOr(fed, "FedPortPowerRole", 0)
         IN  Put(Put(Put(d, "pd_version", pd_version_map(pd_rev)),
                     "power_role", IF power_role = 0 THEN "Sink" ELSE "Source"),
                 "data_role", IF power_role = 0 THEN "UFP" ELSE "DFP")
    ELSE d

mode_map(mode) ==
    IF mode = 0 THEN <<"DFP (Downstream Facing Port)">>
    ELSE IF mode = 1 THEN <<"UFP (Upstream Facing Port)">>
    ELSE IF mode = 2 THEN <<"DRP (Dual Role Port)">>
    ELSE <<"Mode ", ToString(mode)>>

\* The keys copied from the active port dictionary.
port_fields(d, active_port) ==
    LET d1 == IF "PortControllerFwVersion" \in DOMAIN active_port
              THEN LET fw_ver == active_port["PortControllerFwVersion"]
                       major  == (fw_ver \div Pow2(16)) % 256
                       minor  == (fw_ver \div Pow2(8)) % 256
                       patch  == fw_ver % 256
                   IN  Put(Put(d, "port_fw_version",
                               <<ToString(major), ".", ToString(minor), ".",
                                 ToString(patch)>>),
                           "port_fw_version_raw", fw_ver)
              ELSE d
        d2 == IF "PortControllerNPDOs" \in DOMAIN active_port
              THEN Put(d1, "port_npdos", active_port["PortControllerNPDOs"])
              ELSE d1
        d3 == IF "PortControllerNEprPDOs" \in DOMAIN active_port
              THEN Put(d2, "port_nepr_pdos", active_port["PortControllerNEprPDOs"])
              ELSE d2
        d4 == IF "PortControllerPowerState" \in DOMAIN active_port
              THEN Put(d3, "port_power_state", active_port["PortControllerPowerState"])
              ELSE d3
        d5 == IF "PortControllerPortMode" \in DOMAIN active_port
              THEN LET mode == active_port["PortControllerPortMode"]
                   IN  Put(Put(d4, "port_mode", mode_map(mode)), "port_mode_raw", mode)
              ELSE d4
        d6 == IF "PortControllerMaxPower" \in DOMAIN active_port
              THEN LET max_power_mw == active_port["PortControllerMaxPower"]
                   IN  Put(Put(d5, "port_max_power_w", TrueDiv(max_power_mw, 1000)),
                           "port_max_power_mw", max_power_mw)
              ELSE d5
    IN  d6

\* data['active_rdo'] = decode_rdo(rdo) when the active port's RDO is not 0.
active_rdo_field(d, active_port) ==
    LET rdo_ == GetOr(active_port, "PortControllerActiveContractRdo", ZeroWord)
    IN  IF rdo_ # ZeroWord THEN Put(d, "active_rdo", decode_rdo(rdo_)) ELSE d

\* len([p for p in pdos if p != 0])
pdo_count_of(pdos) == Len(SelectSeq(pdos, LAMBDA p : p # ZeroWord))

\* Variant of best_port_pdos that also takes a later list with as many PDOs.
RECURSIVE best_port_pdos_geq(_, _, _, _, _)
best_port_pdos_geq(port_info, active_idx, i, port_pdos, max_pdos) ==
    IF i > Len(port_info) THEN port_pdos
    ELSE IF i - 1 = active_idx
    THEN best_port_pdos_geq(port_info, active_idx, i + 1, port_pdos, max_pdos)
    ELSE LET pdos      == GetOr(port_info[i], "PortControllerPortPDO", <<>>)
             pdo_count == pdo_count_of(pdos)
         IN  IF pdo_count >= max_pdos /\ pdo_count > 0
             THEN best_port_pdos_geq(port_info, active_idx, i + 1, <<pdos>>, pdo_count)
             ELSE best_port_pdos_geq(port_info, active_idx, i + 1, port_pdos, max_pdos)

\* The loop over the non-active ports from the list position i on:
\* <<pdos>> for the list kept in port_pdos, <<>> for None.
RECURSIVE best_port_pdos(_, _, _, _, _)
best_port_pdos(port_info, active_idx, i, port_pdos, max_pdos) ==
    IF i > Len(port_info) THEN port_pdos
    ELSE IF i - 1 = active_idx
    THEN best_port_pdos(port_info, active_idx, i + 1, port_pdos, max_pdos)
    ELSE LET pdos      == GetOr(port_info[i], "PortControllerPortPDO", <<>>)
             pdo_count == pdo_count_of(pdos)
         IN  IF pdo_count > max_pdos
             THEN best_port_pdos(port_info, active_idx, i + 1, <<pdos>>, pdo_count)
             ELSE best_port_pdos(port_info, active_idx, i + 1, port_pdos, max_pdos)

\* Variant of port_pdos_of that also takes a later list with as many PDOs.
port_pdos_of_last_tie(port_info, active_idx) ==
    LET found == best_port_pdos_geq(port_info, active_idx, 1, <<>>, 0)
    IN  IF found = <<>>
        THEN GetOr(port_info[active_idx + 1], "PortControllerPortPDO", <<>>)
        ELSE found[1]

\* port_pdos once the loop over the non-active ports and the fallback to
\* the active port are done.
port_pdos_of(port_info, active_idx) ==
    LET found == best_port_pdos(port_info, active_idx, 1, <<>>, 0)
    IN  IF found = <<>>
        THEN GetOr(port_info[active_idx + 1], "PortControllerPortPDO", <<>>)
        ELSE found[1]

\* data['sink_capabilities']: the decoded PDOs of the chosen list.
sink_capabilities_field(d, port_info, active_idx) ==
    LET port_pdos == port_pdos_of(port_info, active_idx)
        decoded_pdos ==
            SelectSeq([k \in 1..Len(port_pdos) |-> decode_pdo(port_pdos[k])],
                      LAMBDA decoded : DictTruthy(decoded))
    IN  IF port_pdos # <<>> /\ decoded_pdos # <<>>
        THEN Put(d, "sink_capabilities", decoded_pdos)
        ELSE d

source_cap(item) ==
    LET voltage_mv == item["MaxVoltage"]
        current_ma == item["MaxCurrent"]
    IN  [voltage_v  |-> TrueDiv(voltage_mv, 1000),
         current_a  |-> TrueDiv(current_ma, 1000),
         power_w    |-> TrueDiv(voltage_mv * current_ma, 1000000),
         voltage_mv |-> voltage_mv,
         current_ma |-> current_ma]

\* data['source_capabilities'] from AdapterDetails.UsbHvcMenu.
source_capabilities_field(d, battery_) ==
    IF "AdapterDetails" \in DOMAIN battery_
       /\ "UsbHvcMenu" \in DOMAIN battery_["AdapterDetails"]
    THEN LET menu  == battery_["AdapterDetails"]["UsbHvcMenu"]
             items == SelectSeq(menu, LAMBDA item :
                          "MaxVoltage" \in DOMAIN item /\ "MaxCurrent" \in DOMAIN item)
             source_caps == [k \in 1..Len(items) |-> source_cap(items[k])]
         IN  IF source_caps # <<>> THEN Put(d, "source_capabilities", source_caps) ELSE d
    ELSE d

\* The function from its first line to its return: the dictionary it returns
\* and the value active_port_idx has then.
get_usbc_pd_info(sudo, ioreg) ==
    IF ~sudo THEN [active_port_idx |-> <<>>, data |-> EmptyDict]
    ELSE IF ioreg = <<>> THEN [active_port_idx |-> <<>>, data |-> EmptyDict]
    ELSE
        LET battery_    == ioreg[1]
            port_info   == GetOr(battery_, "PortControllerInfo", <<>>)
            fed_details == GetOr(battery_, "FedDetails", <<>>)
            active      == active_port_of(port_info)
        IN  IF active = <<>> THEN [active_port_idx |-> <<>>, data |-> EmptyDict]
            ELSE
                LET idx         == active[1]
                    active_port == port_info[idx + 1]
                    d1 == fed_fields(EmptyDict, fed_details, idx)
                    d2 == port_fields(d1, active_port)
                    d3 == active_rdo_field(d2, active_port)
                    d4 == sink_capabilities_field(d3, port_info, idx)
                IN  [active_port_idx |-> active,
                     data |-> source_capabilities_field(d4, battery_)]

----------------------------------------------------------------------------
(* Specification of get_usbc_pd_info on a sampled ioreg battery *)

\* The longest PortControllerInfo list sampled.
MaxPorts == 3

\* Two Request Data Objects and three Power Data Objects, none of them zero.
RdoOne == WordOfBytes(19, 4, 177, 44)
RdoTwo == WordOfBytes(35, 2, 88, 150)
PdoFixed == encode_pdo_fixed(20000, 3000)
PdoPps == WordOfBytes(200, 200, 100, 60)
PdoOther == WordOfBytes(64, 0, 0, 1)

\* The contract part of a port dictionary: no contract, a zero RDO, an RDO
\* without MaxPower, an RDO with MaxPower.
NoContract == EmptyDict

ZeroContract ==
    [PortControllerActiveContractRdo |-> ZeroWord,
     PortControllerMaxPower |-> 60000,
     PortControllerFwVersion |-> 197120,
     PortControllerPortMode |-> 1]

UnpoweredContract ==
    [PortControllerActiveContractRdo |-> RdoOne,
     PortControllerNPDOs |-> 4,
     PortControllerPortMode |-> 3]

PoweredContract ==
    [PortControllerActiveContractRdo |-> RdoTwo,
     PortControllerMaxPower |-> 94000,
     PortControllerFwVersion |-> 198145,
     PortControllerNPDOs |-> 7,
     PortControllerNEprPDOs |-> 1,
     PortControllerPowerState |-> 4,
     PortControllerPortMode |-> 0]

PortContracts == {NoContract, ZeroContract, UnpoweredContract, PoweredContract}

\* Port dictionaries: every contract without PortControllerPortPDO and with
\* a one-entry list, and four ports whose list has zero slots or more entries.
PortSamples ==
    PortContracts
    \cup {Put(c, "PortControllerPortPDO", <<PdoFixed>>) : c \in PortContracts}
    \cup {Put(NoContract, "PortControllerPortPDO", <<ZeroWord, PdoPps>>),
          Put(PoweredContract, "PortControllerPortPDO", <<ZeroWord, ZeroWord>>),
          Put(NoContract, "PortControllerPortPDO",
              <<PdoPps, ZeroWord, PdoOther, PdoFixed>>),
          Put(UnpoweredContract, "PortControllerPortPDO",
              <<PdoPps, ZeroWord, PdoOther, PdoFixed>>)}

FedSamples ==
    <<[FedPdSpecRevision |-> 2, FedPortPowerRole |-> 0, FedDualRolePower |-> 1],
      [FedPdSpecRevision |-> 5, FedPortPowerRole |-> 1],
      EmptyDict>>

MenuSamples ==
    <<[MaxVoltage |-> 5000, MaxCurrent |-> 3000],
      [MaxVoltage |-> 9000],
      [MaxVoltage |-> 20000, MaxCurrent |-> 4700]>>

\* The rest of the battery dictionary, for a port list of length n: without
\* FedDetails and AdapterDetails, or with FedDetails for all ports but the last.
BatteryRests(n) ==
    <<EmptyDict,
      [FedDetails |-> [k \in 1..(n - 1) |-> FedSamples[(k % 3) + 1]],
       AdapterDetails |-> [UsbHvcMenu |-> MenuSamples]]>>

InitUsbc ==
    /\ pc = "ready"
    /\ \/ /\ use_sudo = TRUE
          /\ \E n \in 0..MaxPorts : \E ps \in [1..n -> PortSamples] : \E r \in 1..2 :
                ioreg_data = <<Put(BatteryRests(n)[r], "PortControllerInfo", ps)>>
       \/ /\ use_sudo = TRUE
          /\ ioreg_data \in {<<>>, <<[AdapterDetails |-> [Watts |-> 94]]>>}
       \/ /\ use_sudo = FALSE
          /\ \E ps \in [1..1 -> PortSamples] :
                ioreg_data = <<Put(EmptyDict, "PortControllerInfo", ps)>>
    /\ active_port_idx = <<>>
    /\ pd_info = EmptyDict
    /\ battery = EmptyDict
    /\ data = EmptyDict
    /\ IdlePd
    /\ IdleDate
    /\ IdleFlags
    /\ IdleLookup

GetUsbcPdInfo ==
    /\ pc = "ready"
    /\ \E ret \in {get_usbc_pd_info(use_sudo, ioreg_data)} :
          /\ active_port_idx' = ret.active_port_idx
          /\ pd_info' = ret.data
    /\ pc' = "done"
    /\ UNCHANGED <<use_sudo, ioreg_data, battery, data, pdo, pdo_ret, fixed_v, fixed_i,
                   rdo, rdo_ret, dateVars, flagVars, lookupVars>>

NextUsbc == GetUsbcPdInfo

SpecUsbc == InitUsbc /\ [][NextUsbc]_vars

----------------------------------------------------------------------------
(* Properties of get_usbc_pd_info *)

\* get_usbc_pd_info has run with use_sudo set on an ioreg battery.
UsbcDone == pc = "done" /\ use_sudo /\ ioreg_data # <<>>

\* PortControllerInfo of the battery, [] when the battery has none.
Ports ==
    IF "PortControllerInfo" \in DOMAIN ioreg_data[1]
    THEN ioreg_data[1]["PortControllerInfo"]
    ELSE <<>>

\* The port at list position k has a non-zero ActiveContractRdo.
HasContract(k) ==
    /\ "PortControllerActiveContractRdo" \in DOMAIN Ports[k]
    /\ Ports[k]["PortControllerActiveContractRdo"] # ZeroWord

\* The port at list position k has MaxPower > 0.
HasPower(k) ==
    /\ "PortControllerMaxPower" \in DOMAIN Ports[k]
    /\ Ports[k]["PortControllerMaxPower"] > 0

Lowest(S) == CHOOSE k \in S : \A j \in S : k <= j

\* C28: with P the ports that have a non-zero RDO and MaxPower > 0 and R the
\* ports that have a non-zero RDO, the active port is the lowest-index port of
\* P, or of R when P is empty; when R is empty no port is selected and the
\* result is empty.  A selected port has a non-zero RDO and the result has
\* the key 'active_rdo'.
C28_ActivePortSelection ==
    UsbcDone =>
        LET R == {k \in 1..Len(Ports) : HasContract(k)}
            P == {k \in R : HasPower(k)}
        IN  /\ P # {} => active_port_idx = <<Lowest(P) - 1>>
            /\ P = {} /\ R # {} => active_port_idx = <<Lowest(R) - 1>>
            /\ R = {} => active_port_idx = <<>> /\ pd_info = EmptyDict
            /\ active_port_idx # <<>> =>
                  /\ HasContract(active_port_idx[1] + 1)
                  /\ "active_rdo" \in DOMAIN pd_info

\* C28 witness: the second port is selected, behind a port whose RDO has no
\* MaxPower and in front of another port with MaxPower.
C28_Witness ==
    /\ UsbcDone
    /\ Len(Ports) = 3
    /\ HasContract(1) /\ ~HasPower(1)
    /\ HasContract(2) /\ HasPower(2)
    /\ HasContract(3) /\ HasPower(3)
    /\ active_port_idx = <<1>>
    /\ "active_rdo" \in DOMAIN pd_info

\* PortControllerPortPDO of the port at list position k, [] when it has none.
PdoList(k) ==
    IF "PortControllerPortPDO" \in DOMAIN Ports[k]
    THEN Ports[k]["PortControllerPortPDO"]
    ELSE <<>>

\* The number of non-zero PDOs of the port at list position k.
NonZeroCount(k) == Cardinality({j \in 1..Len(PdoList(k)) : PdoList(k)[j] # ZeroWord})

\* The non-zero PDOs of a list, in list order.
NonZero(l) == SelectSeq(l, LAMBDA p : p # ZeroWord)

\* C29: when a port is selected, the PDO list used is that of the non-active
\* port with the largest count of non-zero PDOs, the lowest index among equal
\* counts, and the active port's list when every non-active port has count 0;
\* 'sink_capabilities' is the list of decode_pdo of its non-zero PDOs in list
\* order, and the key is absent when it has none.
C29_SinkCapabilitySelection ==
    UsbcDone /\ active_port_idx # <<>> =>
        LET a     == active_port_idx[1] + 1
            Other == {k \in 1..Len(Ports) : k # a /\ NonZeroCount(k) > 0}
            Best  == {k \in Other : \A j \in Other : NonZeroCount(j) <= NonZeroCount(k)}
            used  == IF Other = {} THEN PdoList(a) ELSE PdoList(Lowest(Best))
            kept  == NonZero(used)
        IN  IF kept = <<>>
            THEN "sink_capabilities" \notin DOMAIN pd_info
            ELSE /\ "sink_capabilities" \in DOMAIN pd_info
                 /\ Len(pd_info["sink_capabilities"]) = Len(kept)
                 /\ \A j \in 1..Len(kept) :
                       pd_info["sink_capabilities"][j] = decode_pdo(kept[j])

\* C29 witness: two non-active ports have one non-zero PDO each, the second
\* of them behind a zero slot, and the active port has four slots; the list
\* of the first non-active port is the one decoded.
C29_Witness ==
    /\ UsbcDone
    /\ active_port_idx = <<0>>
    /\ Len(Ports) = 3
    /\ PdoList(1) = <<PdoPps, ZeroWord, PdoOther, PdoFixed>>
    /\ PdoList(2) = <<ZeroWord, PdoPps>>
    /\ PdoList(3) = <<PdoFixed>>
    /\ "sink_capabilities" \in DOMAIN pd_info
    /\ pd_info["sink_capabilities"] = <<decode_pdo(PdoPps)>>

\* The active port's own list is decoded, its zero slot skipped, when no other
\* port has a non-zero PDO.
C29_ActiveListUsed ==
    /\ UsbcDone
    /\ active_port_idx = <<1>>
    /\ Len(Ports) = 2
    /\ PdoList(1) = <<>>
    /\ PdoList(2) = <<PdoPps, ZeroWord, PdoOther, PdoFixed>>
    /\ "sink_capabilities" \in DOMAIN pd_info
    /\ Len(pd_info["sink_capabilities"]) = 3

----------------------------------------------------------------------------
(* Specification of two calls of one decoder on one argument, with the clock
   advancing and Colors.disable() running at any moment around them. *)

\* The number of years the clock can advance.
ClockSteps == 2

\* The year of the first datetime.now().
FirstCallYear == 2023

Decoders ==
    {"decode_pdo", "decode_rdo", "decode_manufacture_date", "decode_manufacturer_data",
     "_decode_charger_inhibit_reason", "_decode_not_charging_reason",
     "_decode_charger_config", "_decode_slow_charging_reason",
     "_decode_permanent_failure_status", "_decode_gauge_flag_raw", "_decode_misc_status",
     "_decode_chem_id", "_decode_charger_id", "_decode_charger_family",
     "_decode_wait_seconds"}

\* "621033", "621-53", "6 5231", "A21033", "62103", "6210", 0, and "621033"
\* behind a byte that is not ASCII.
CallDates ==
    {<<54, 50, 49, 48, 51, 51>>, <<54, 50, 49, 45, 53, 51>>, <<54, 32, 53, 50, 51, 49>>,
     <<65, 50, 49, 48, 51, 51>>, <<54, 50, 49, 48, 51>>, <<54, 50, 49, 48>>, <<0>>,
     <<179, 54, 50, 49, 48, 51, 51>>}

\* "0xe0000000", "0x00010000", "0x12345678", "e0", "0xzz", "" and " 12 ".
CallFamilies ==
    {<<48, 120, 101, 48, 48, 48, 48, 48, 48, 48>>,
     <<48, 120, 48, 48, 48, 49, 48, 48, 48, 48>>,
     <<48, 120, 49, 50, 51, 52, 53, 54, 55, 56>>,
     <<101, 48>>, <<48, 120, 122, 122>>, <<>>, <<32, 49, 50, 32>>}

\* The arguments sampled for each decoder.
CallArgs(fn) ==
    IF fn \in {"decode_pdo", "decode_rdo"}
    THEN {ZeroWord, PdoFixed, PdoPps, PdoOther, RdoOne, WordOfBytes(255, 255, 255, 255)}
    ELSE IF fn = "decode_manufacture_date" THEN CallDates
    ELSE IF fn = "decode_manufacturer_data" THEN Blobs(2)
    ELSE IF fn = "_decode_charger_family" THEN CallFamilies
    ELSE IF fn \in {"_decode_chem_id", "_decode_charger_id"} THEN {0, 3, 255, 29961, 65535}
    ELSE IF fn = "_decode_wait_seconds" THEN {0, 59, 3665, 86400}
    ELSE {0, 1, 129, 1024, 32768, 65535, 65536}

\* The call fn(arg) made when datetime.now() is current and the class Colors
\* has the attributes Colors_: what it returns, or what it raises.
call(fn, arg, current, Colors_) ==
    IF fn = "decode_pdo" THEN Return(decode_pdo(arg))
    ELSE IF fn = "decode_rdo" THEN Return(decode_rdo(arg))
    ELSE IF fn = "decode_manufacture_date" THEN Return(decode_manufacture_date(arg, current))
    ELSE IF fn = "decode_manufacturer_data" THEN Return(decode_manufacturer_data(arg))
    ELSE IF fn = "_decode_charger_inhibit_reason"
    THEN Return(_decode_charger_inhibit_reason(arg))
    ELSE IF fn = "_decode_not_charging_reason" THEN Return(_decode_not_charging_reason(arg))
    ELSE IF fn = "_decode_charger_config" THEN Return(_decode_charger_config(arg, Colors_))
    ELSE IF fn = "_decode_slow_charging_reason"
    THEN Return(_decode_slow_charging_reason(arg))
    ELSE IF fn = "_decode_permanent_failure_status"
    THEN Return(_decode_permanent_failure_status(arg))
    ELSE IF fn = "_decode_gauge_flag_raw" THEN Return(_decode_gauge_flag_raw(arg))
    ELSE IF fn = "_decode_misc_status" THEN Return(_decode_misc_status(arg))
    ELSE IF fn = "_decode_chem_id" THEN Return(_decode_chem_id(arg))
    ELSE IF fn = "_decode_charger_id" THEN Return(_decode_charger_id(arg))
    ELSE IF fn = "_decode_charger_family" THEN _decode_charger_family(arg)
    ELSE Return(_decode_wait_seconds(arg))

InitCalls ==
    /\ pc = "ready"
    /\ now = [year |-> FirstCallYear, month |-> 1, day |-> 15]
    /\ date_ret = None
    /\ colors = ColorsEnabled
    /\ flag_raw = 0
    /\ flag_dec = "none"
    /\ flag_out = <<>>
    /\ battery = [BatteryData |-> EmptyDict]
    /\ data = EmptyDict
    /\ IdlePd
    /\ IdleLookup
    /\ IdleUsbc

callsRest == <<battery, data, pdo, pdo_ret, fixed_v, fixed_i, rdo, rdo_ret,
               date_ret, flag_raw, flag_dec, flag_out, usbcVars>>

\* The first call: a decoder and an argument are chosen.
FirstCall ==
    /\ pc = "ready"
    /\ \E fn \in Decoders : \E arg \in CallArgs(fn) :
          \E out \in {call(fn, arg, now, colors)} :
             /\ lk_fn' = fn
             /\ lk_arg' = arg
             /\ lk_ret' = out.value
             /\ lk_exc' = out.raised
    /\ lk_env' = [year |-> now.year, colors |-> colors]
    /\ pc' = "once"
    /\ UNCHANGED <<again_ret, now, colors, callsRest>>

\* The second call of the same decoder on the same argument.
SecondCall ==
    /\ pc = "once"
    /\ \E out \in {call(lk_fn, lk_arg, now, colors)} :
          /\ again_ret' = out.value
          /\ lk_exc' = out.raised
    /\ pc' = "done"
    /\ UNCHANGED <<lk_fn, lk_arg, lk_ret, lk_env, now, colors, callsRest>>

\* A new year begins.
AdvanceClock ==
    /\ pc \in {"ready", "once"}
    /\ now.year < FirstCallYear + ClockSteps
    /\ now' = [now EXCEPT !.year = now.year + 1]
    /\ UNCHANGED <<pc, colors, lookupVars, callsRest>>

\* Colors.disable(), before or between the calls.
DisableColors ==
    /\ pc \in {"ready", "once"}
    /\ colors = ColorsEnabled
    /\ colors' = ColorsDisabled
    /\ UNCHANGED <<pc, now, lookupVars, callsRest>>

NextCalls == FirstCall \/ SecondCall \/ AdvanceClock \/ DisableColors

SpecCalls == InitCalls /\ [][NextCalls]_vars

----------------------------------------------------------------------------
(* Properties of repeated calls *)

C25_DateChangesWithYear ==
    /\ pc = "done"
    /\ lk_fn = "decode_manufacture_date"
    /\ lk_arg = <<54, 50, 49, 48, 51, 51>>
    /\ lk_env.year = 2023
    /\ Render(lk_ret) = "2013-06-21 (Lot: 3)"
    /\ Render(again_ret) = "2023-06-21 (Lot: 3)"

\* The decoded text of the argument of decode_manufacture_date.
CallDateText == SelectSeq(lk_arg, LAMBDA b : b \in 0..127)

\* C26 (as stated): no call raises, and decode_manufacture_date returns None
\* when the decoded text is shorter than five characters or one of its first
\* five characters is not a digit.
C26_TotalAndNoneOnNonDigits ==
    pc \in {"once", "done"} =>
        /\ lk_exc = "none"
        /\ lk_fn = "decode_manufacture_date" =>
              /\ Len(CallDateText) < 5 => lk_ret = None
              /\ Len(CallDateText) >= 5
                   /\ (\E i \in 1..5 : CallDateText[i] \notin 48..57) => lk_ret = None

\* The part of C26 that holds: no call raises, and a text that is too short
\* gives None.
C26_NeverRaises ==
    pc \in {"once", "done"} =>
        /\ lk_exc = "none"
        /\ lk_fn = "decode_manufacture_date" /\ Len(CallDateText) < 5 => lk_ret = None

\* decode_manufacture_date read the year "-5" of "621-53" as 2015.
C26_SignReadAsYear ==
    /\ pc = "once"
    /\ lk_fn = "decode_manufacture_date"
    /\ lk_arg = <<54, 50, 49, 45, 53, 51>>
    /\ Render(lk_ret) = "2015-06-21 (Lot: 3)"

====
